---------------------------- MODULE Spec2Model ----------------------------
(***************************************************************************)
(* espresso-shot: firmware of an espresso shot monitor.  The repository    *)
(* holds several revisions of the control loop:                            *)
(*   - the task-scheduler / push-button revision (src/functions.cpp 1-251, *)
(*     src/espresso-shot.ino 140-226), called "scheduler" below;           *)
(*   - the time-gated loop / potentiometer revision                        *)
(*     (src/espresso-shot.ino 1-138, src/unnamed/part_002), called "loop". *)
(*                                                                         *)
(* Number representation.  A C float is a record [k, v]: k = "fin" with an *)
(* integer v in the unit of the quantity, k = "inf" with v the sign, or    *)
(* k = "nan".  Units: resistance in ohm, temperature in 1/100 degree       *)
(* Celsius, voltage in 1/16000 V (0.0001875 V = 3/16000 V), elapsed_time   *)
(* in 1/1000 s, time stamps in ms modulo ULONG_RANGE.                      *)
(***************************************************************************)
EXTENDS Integers, Sequences, FiniteSets, TLC

VARIABLES
    variant,        \* which revision of the firmware is running
    scenario,       \* which of the device's inputs vary in this run
    now,            \* millis()
    state,          \* DeviceState
    tasks,          \* TaskScheduler: iPreviousMillis of each Task, in chain order
    fan_pin,        \* level last written to FAN_PIN
    serial,         \* last Measurement written to Serial, and how many were written
    display,        \* what the last refresh_display drew
    op,             \* the operation that ran last
    lever,          \* the lever sample taken by the last state-machine step
    shot,           \* stopwatch bookkeeping of the current shot (history)
    trace,          \* lever samples and machine states of the first steps (history)
    fn,             \* argument and result of the last pure-function evaluation;
                    \* in SpecBoolean, the globals of the boolean revision
    input,          \* what the last operation that reads inputs has read (history)
    since_fault     \* pushes since the last non-finite group sample, -1: none (history)

vars == <<variant, scenario, now, state, tasks, fan_pin, serial, display, op, lever,
          shot, trace, fn, input, since_fault>>

-----------------------------------------------------------------------------
(* Bounds of the model *)

\* Slots of each resistance buffer (BUFFER_SIZE is 100 in src/constants.h:17).
BUFFER_SIZE == 3
\* unsigned long is modelled with ULONG_RANGE values (2^32 on the device).
ULONG_RANGE == 4096
\* The clock is followed for MaxTime ms after setup(), in steps of ClockStep ms.
MaxTime == 30
ClockStep == 5
\* Largest ADC reading drawn by the pure-function specifications.
MaxReading == 12
\* Lever samples recorded in the state-machine trace.
MaxTrace == 5
\* the number of resistances averaged in single precision, less one
MaxSample == 63
\* how long after boot the display is followed, in ms
DisplaySpan == 1500
MaxFormat == 60
MaxCurve == 200
GateSpan == 540
GateWindow == 30
WrapSpan == 20
PassSpan == 40

-----------------------------------------------------------------------------
(* Program constants *)

DEFAULT_TASK_PERIOD == 10
SENSING_PERIOD == 10
DISPLAY_PERIOD == 250
TARGET_DISPLAY_TIME == 1000
FORMAT_BUFFER_SIZE == 8
TARGET_TEMPERATURE_MIN == 8800
TARGET_TEMPERATURE_MAX == 9800
BASKET_KNOWN_RESISTANCE == 9940
GROUP_KNOWN_RESISTANCE == 9940
\* The scheduler revision's own constants.h is not among the sources: the step is
\* the 0.5 degree quantum and the default is some quantized target of the range.
TARGET_TEMPERATURE_INCREMENT == 50
TARGET_TEMPERATURE_DEFAULTS ==
    {TARGET_TEMPERATURE_MIN,
     (TARGET_TEMPERATURE_MIN + TARGET_TEMPERATURE_MAX) \div 2,
     TARGET_TEMPERATURE_MAX}

\* Steinhart-Hart coefficients: A and B in 1e-8 / K, C in 1e-11 / K.
BASKET_SH_A == 77292
BASKET_SH_B == 20527
BASKET_SH_C == 14273
GROUP_SH_A == 77292
GROUP_SH_B == 20527
GROUP_SH_C == 14273

MachineState == {"START", "RUNNING", "STOP", "STOPPED"}

\* long(state.machine_state): the enumerators' values.
MachineStateValue(ms) ==
    CASE ms = "START" -> 0
      [] ms = "RUNNING" -> 1
      [] ms = "STOP" -> 2
      [] ms = "STOPPED" -> 3

-----------------------------------------------------------------------------
(* Floating point values *)

Fin(n) == [k |-> "fin", v |-> n]
INFINITY == [k |-> "inf", v |-> 1]
NEG_INFINITY == [k |-> "inf", v |-> -1]
NAN == [k |-> "nan", v |-> 0]

IsFinite(x) == x.k = "fin"
IsNaN(x) == x.k = "nan"

\* a + b
FloatAdd(a, b) ==
    IF a.k = "nan" \/ b.k = "nan" THEN NAN
    ELSE IF a.k = "inf" /\ b.k = "inf" THEN (IF a.v = b.v THEN a ELSE NAN)
    ELSE IF a.k = "inf" THEN a
    ELSE IF b.k = "inf" THEN b
    ELSE Fin(a.v + b.v)

\* Integer quotient rounded toward zero.
TruncDiv(a, b) ==
    IF (a >= 0) = (b > 0)
    THEN (IF a >= 0 THEN a \div b ELSE (-a) \div (-b))
    ELSE (IF a >= 0 THEN -(a \div (-b)) ELSE -((-a) \div b))

\* a / n for an integer n > 0
FloatDivInt(a, n) ==
    IF a.k = "fin" THEN Fin(TruncDiv(a.v, n)) ELSE a

\* a > t for a finite t: every comparison with NaN is false
FloatGreater(a, t) ==
    CASE a.k = "fin" -> a.v > t
      [] a.k = "inf" -> a.v > 0
      [] a.k = "nan" -> FALSE

\* a * b \div d without leaving 32 bits, for a, b >= 0 and b * d < 2^31
MulDiv(a, b, d) == (a \div d) * b + ((a % d) * b) \div d

\* ULONG arithmetic
UAdd(a, b) == (a + b) % ULONG_RANGE
USub(a, b) == (a - b + ULONG_RANGE) % ULONG_RANGE

-----------------------------------------------------------------------------
(* Conversions (src/functions.cpp 174-251, src/unnamed/part_002 21-95) *)

\* 0.0001875 * readADC_SingleEnded(channel), in 1/16000 V
read_voltage(reading) == 3 * reading

\* The quotient reference_voltage / voltage compared with 1.01.
RatioBelowThreshold(reference_voltage, voltage) ==
    LET r == IF reference_voltage >= 0 THEN reference_voltage ELSE -reference_voltage
        v == IF voltage >= 0 THEN voltage ELSE -voltage
    IN  100 * r < 101 * v

\* known_resistance / (voltage_ratio - 1.0), the quotient of two floats.
DividerResistance(reference_voltage, voltage, known_resistance) ==
    IF voltage = 0
    THEN (IF reference_voltage = 0 THEN NAN ELSE Fin(0))
    ELSE IF reference_voltage = voltage THEN INFINITY
    ELSE Fin(TruncDiv(known_resistance * voltage, reference_voltage - voltage))

\* read_resistance of the scheduler revision: refuses a voltage too close to the
\* reference.
read_resistance(reference_reading, reading, known_resistance) ==
    LET reference_voltage == read_voltage(reference_reading)
        voltage == read_voltage(reading)
    IN  IF voltage # 0 /\ RatioBelowThreshold(reference_voltage, voltage)
        THEN INFINITY
        ELSE DividerResistance(reference_voltage, voltage, known_resistance)

\* read_resistance of the loop revision.
read_resistance_loop(reference_reading, reading, known_resistance) ==
    LET reference_voltage == read_voltage(reference_reading)
        voltage == read_voltage(reading)
    IN  DividerResistance(reference_voltage, voltage, known_resistance)

RECURSIVE FloorPow2(_)
\* The largest power of two that is at most n, for n >= 1.
FloorPow2(n) == IF n < 2 THEN 1 ELSE 2 * FloorPow2(n \div 2)

RECURSIVE Log2(_)
Log2(n) == IF n < 2 THEN 0 ELSE 1 + Log2(n \div 2)

\* log(x) in 1e-5, for an integer x >= 1: x = 2^e * m, ln m by the atanh series.
log(x) ==
    LET p == FloorPow2(x)
        y == ((x - p) * 10000) \div (x + p)
        y2 == (y * y) \div 10000
        y3 == (y2 * y) \div 10000
        y5 == (y3 * y2) \div 10000
        y7 == (y5 * y2) \div 10000
    IN  Log2(x) * 69315 + 20 * (y + y3 \div 3 + y5 \div 5 + y7 \div 7)

\* 1.0 / inverse_temperature_kelvin - 273.15 in 1/100 degree, for the inverse
\* temperature in 1e-8 / K: 1.0 / 0 is +infinity.
KelvinToCelsius(inverse_temperature_kelvin) ==
    LET magnitude == IF inverse_temperature_kelvin >= 0
                     THEN inverse_temperature_kelvin
                     ELSE -inverse_temperature_kelvin
        q == 1000000000 \div magnitude
        r == 1000000000 % magnitude
        kelvin == 10 * q + (10 * r) \div magnitude
    IN  IF inverse_temperature_kelvin = 0 THEN INFINITY
        ELSE IF inverse_temperature_kelvin > 0 THEN Fin(kelvin - 27315)
        ELSE Fin(-kelvin - 27315)

\* The inverse temperature grows with ln R instead of falling out of 1 / it.
SteinhartHart_NoReciprocal(resistance, unit, sh_a, sh_b, sh_c) ==
    IF resistance.k = "fin" /\ resistance.v > 0
    THEN Fin(MulDiv(log(resistance.v) - log(unit), sh_b, 100000) - 27315)
    ELSE NAN

\* Steinhart-Hart: 1 / (a + b ln R + c (ln R)^3) - 273.15, in 1/100 degree, for
\* a resistance R given in 1/unit ohm.
SteinhartHart(resistance, unit, sh_a, sh_b, sh_c) ==
    CASE resistance.k = "nan" -> NAN
      [] resistance.k = "inf" ->
            \* log(inf) = inf and 1 / inf = 0; log(-inf) is NaN
            IF resistance.v > 0 THEN Fin(-27315) ELSE NAN
      [] resistance.k = "fin" /\ resistance.v < 0 -> NAN
      [] resistance.k = "fin" /\ resistance.v = 0 -> Fin(-27315)
      [] OTHER ->
            LET l == log(resistance.v) - log(unit)
                l3 == l \div 100
                cube == MulDiv(l3 * l3, l3, 10000)
                inverse_temperature_kelvin ==
                    sh_a + MulDiv(l, sh_b, 100000)
                         + MulDiv(cube, sh_c, 100000) \div 1000
            IN  KelvinToCelsius(inverse_temperature_kelvin)

\* resistance_to_temperature, for a resistance in ohm.
resistance_to_temperature(resistance, sh_a, sh_b, sh_c) ==
    SteinhartHart(resistance, 1, sh_a, sh_b, sh_c)

basket_resistance_to_temperature(resistance) ==
    resistance_to_temperature(resistance, BASKET_SH_A, BASKET_SH_B, BASKET_SH_C)

group_resistance_to_temperature(resistance) ==
    resistance_to_temperature(resistance, GROUP_SH_A, GROUP_SH_B, GROUP_SH_C)

\* Arduino's map(): integer arithmetic on long.
map(x, in_min, in_max, out_min, out_max) ==
    TruncDiv((x - in_min) * (out_max - out_min), in_max - in_min) + out_min

\* read_target_temperature of the loop revision, for a raw analogRead() value.
read_target_temperature(raw) ==
    LET double_target_temperature == map(raw, 0, 1023, 180, 200)
    IN  double_target_temperature * 50

\* int(x) for a value x given in 1/scale.
int(x, scale) == TruncDiv(x, scale)

\* The values of int, which is two bytes wide on the ATmega.
IntValues == -(2^15) .. (2^15 - 1)

\* The conversion of the float x, given in 1/scale, to int.  The conversion is
\* undefined when x is not numeric or its integer part is no value of int: it
\* then yields undefined_int.
float_to_int(x, scale, undefined_int) ==
    IF IsFinite(x) /\ TruncDiv(x.v, scale) \in IntValues
    THEN TruncDiv(x.v, scale)
    ELSE undefined_int

\* a % b of C: the remainder has the sign of a.
Remainder(a, b) == a - b * TruncDiv(a, b)

\* abs(x) of a float.
abs(x) ==
    IF IsFinite(x) THEN Fin(IF x.v >= 0 THEN x.v ELSE -x.v)
    ELSE IF IsNaN(x) THEN NAN ELSE INFINITY

\* x * n of a float and an integer n > 0.
FloatTimes(x, n) == IF IsFinite(x) THEN Fin(x.v * n) ELSE x

\* The number of decimal digits of n >= 0.
RECURSIVE Digits(_)
Digits(n) == IF n < 10 THEN 1 ELSE 1 + Digits(n \div 10)

\* The number of characters printf writes for n under %<width>d or %0<width>d.
FieldWidth(n, width) ==
    LET printed == IF n < 0 THEN 1 + Digits(-n) ELSE Digits(n)
    IN  IF printed < width THEN width ELSE printed

\* The number of characters snprintf leaves in a buffer of FORMAT_BUFFER_SIZE
\* bytes when the formatted text has the given number of characters.
BufferLength(characters) ==
    IF characters < FORMAT_BUFFER_SIZE THEN characters ELSE FORMAT_BUFFER_SIZE - 1

\* The numeric form of a temperature: "%3d.%1dC".
NumericTemperature(temperature, undefined_int) ==
    LET integer == float_to_int(temperature, 100, undefined_int)
        decimal == Remainder(float_to_int(FloatTimes(abs(temperature), 10), 100,
                                          undefined_int), 10)
    IN  [form |-> "%3d.%1dC", integer |-> integer, decimal |-> decimal,
         length |-> BufferLength(FieldWidth(integer, 3) + 1
                                 + FieldWidth(decimal, 1) + 1)]

\* format_temperature of the scheduler revision.
format_temperature(temperature, undefined_int) ==
    IF FloatGreater(temperature, -27300)
    THEN NumericTemperature(temperature, undefined_int)
    ELSE [form |-> "--- C", integer |-> 0, decimal |-> 0, length |-> 5]

\* format_elapsed_time, for elapsed_time in 1/1000 s.
format_elapsed_time(elapsed_time, undefined_int) ==
    LET clamped == IF elapsed_time < 3599000 THEN elapsed_time ELSE 3599000
        minutes == float_to_int(Fin(clamped), 1000, undefined_int) \div 60
        seconds == float_to_int(Fin(clamped), 1000, undefined_int) % 60
        decimal == Remainder(float_to_int(Fin(clamped * 10), 1000, undefined_int),
                             10)
    IN  [minutes |-> minutes, seconds |-> seconds, decimal |-> decimal,
         length |-> BufferLength(FieldWidth(minutes, 2) + 1
                                 + FieldWidth(seconds, 2) + 1
                                 + FieldWidth(decimal, 1))]

\* format_temperature of the loop revision: no test of the temperature.
format_temperature_loop(temperature, undefined_int) ==
    NumericTemperature(temperature, undefined_int)

-----------------------------------------------------------------------------
(* Operations on the DeviceState (src/functions.cpp 6-172) *)

BufferIndex == 0..(BUFFER_SIZE - 1)

read_basket_resistance(adc) ==
    read_resistance(adc.reference, adc.basket, BASKET_KNOWN_RESISTANCE)

read_group_resistance(adc) ==
    read_resistance(adc.reference, adc.group, GROUP_KNOWN_RESISTANCE)

read_basket_resistance_loop(adc) ==
    read_resistance_loop(adc.reference, adc.basket, BASKET_KNOWN_RESISTANCE)

read_group_resistance_loop(adc) ==
    read_resistance_loop(adc.reference, adc.group, GROUP_KNOWN_RESISTANCE)

RECURSIVE BufferSum(_, _)
\* The for loop of update_resistances: buffer[0] + ... + buffer[n - 1], from 0.0.
BufferSum(buffer, n) ==
    IF n = 0 THEN Fin(0) ELSE FloatAdd(BufferSum(buffer, n - 1), buffer[n - 1])

\* The start-up code leaves latest_buffer_index one past the last slot.
InitialDeviceState_PastEnd(basket_resistance, group_resistance, target, t) ==
    [machine_state |-> "STOPPED",
     latest_buffer_index |-> BUFFER_SIZE,
     basket_resistance_buffer |-> [i \in BufferIndex |-> basket_resistance],
     group_resistance_buffer |-> [i \in BufferIndex |-> group_resistance],
     current_basket_temperature |->
         basket_resistance_to_temperature(basket_resistance),
     current_group_temperature |->
         group_resistance_to_temperature(group_resistance),
     target_group_temperature |-> target,
     start_time |-> t,
     elapsed_time |-> 0,
     last_resistance_measurement |-> 0,
     last_display_refresh |-> t,
     last_target_change |-> t]

\* The DeviceState as the start-up code leaves it, given the resistances read and
\* the target.  last_resistance_measurement is never assigned: a global is zero.
InitialDeviceState(basket_resistance, group_resistance, target, t) ==
    [machine_state |-> "STOPPED",
     latest_buffer_index |-> BUFFER_SIZE - 1,
     basket_resistance_buffer |-> [i \in BufferIndex |-> basket_resistance],
     group_resistance_buffer |-> [i \in BufferIndex |-> group_resistance],
     current_basket_temperature |->
         basket_resistance_to_temperature(basket_resistance),
     current_group_temperature |->
         group_resistance_to_temperature(group_resistance),
     target_group_temperature |-> target,
     start_time |-> t,
     elapsed_time |-> 0,
     last_resistance_measurement |-> 0,
     last_display_refresh |-> t,
     last_target_change |-> t]

\* The buffers are filled and the current temperatures are left at zero.
initialize_state_NoTemperatures(adc, target_default, t) ==
    [InitialDeviceState(read_basket_resistance(adc), read_group_resistance(adc),
                        target_default, t)
        EXCEPT !.current_basket_temperature = Fin(0),
               !.current_group_temperature = Fin(0)]

initialize_state(adc, target_default, t) ==
    InitialDeviceState(read_basket_resistance(adc), read_group_resistance(adc),
                       target_default, t)

\* setup() of the loop revision.
setup_loop(adc, raw, t) ==
    InitialDeviceState(read_basket_resistance_loop(adc),
                       read_group_resistance_loop(adc),
                       read_target_temperature(raw), t)

-----------------------------------------------------------------------------
(* Faulty variants of the operations below, which the properties must reject *)

\* STOP never reaches STOPPED.
NextMachineState_StopStays(machine_state, lever_up) ==
    CASE machine_state = "START" -> IF lever_up THEN "RUNNING" ELSE "STOP"
      [] machine_state = "RUNNING" -> IF lever_up THEN "RUNNING" ELSE "STOP"
      [] machine_state = "STOP" -> IF lever_up THEN "START" ELSE "STOP"
      [] machine_state = "STOPPED" -> IF lever_up THEN "START" ELSE "STOPPED"

\* START waits for the lever to stay up.
NextMachineState_StartWaits(machine_state, lever_up) ==
    CASE machine_state = "START" -> IF lever_up THEN "RUNNING" ELSE "START"
      [] machine_state = "RUNNING" -> IF lever_up THEN "RUNNING" ELSE "STOP"
      [] machine_state = "STOP" -> IF lever_up THEN "START" ELSE "STOPPED"
      [] machine_state = "STOPPED" -> IF lever_up THEN "START" ELSE "STOPPED"

\* START never reaches RUNNING.
NextMachineState_StartStays(machine_state, lever_up) ==
    CASE machine_state = "START" -> IF lever_up THEN "START" ELSE "STOP"
      [] machine_state = "RUNNING" -> IF lever_up THEN "RUNNING" ELSE "STOP"
      [] machine_state = "STOP" -> IF lever_up THEN "START" ELSE "STOPPED"
      [] machine_state = "STOPPED" -> IF lever_up THEN "START" ELSE "STOPPED"

\* START does not record the start time.
update_timer_NoReset(st, t) ==
    IF st.machine_state # "STOPPED"
    THEN [st EXCEPT !.elapsed_time = USub(t, st.start_time)]
    ELSE st

\* The elapsed time keeps running in STOPPED.
update_timer_NoFreeze(st, t) ==
    LET s1 == IF st.machine_state = "START"
              THEN [st EXCEPT !.start_time = t, !.elapsed_time = 0]
              ELSE st
    IN  [s1 EXCEPT !.elapsed_time = USub(t, s1.start_time)]

\* The elapsed time is not brought up to date in STOP.
update_timer_RunningOnly(st, t) ==
    LET s1 == IF st.machine_state = "START"
              THEN [st EXCEPT !.start_time = t, !.elapsed_time = 0]
              ELSE st
    IN  IF s1.machine_state \in {"START", "RUNNING"}
        THEN [s1 EXCEPT !.elapsed_time = USub(t, s1.start_time)]
        ELSE s1

\* The difference of the two clock values is not taken modulo the range of
\* unsigned long: a start time above the current time gives zero.
update_timer_NoWrap(st, t) ==
    LET s1 == IF st.machine_state = "START"
              THEN [st EXCEPT !.start_time = t, !.elapsed_time = 0]
              ELSE st
    IN  IF s1.machine_state # "STOPPED"
        THEN [s1 EXCEPT !.elapsed_time = IF t > s1.start_time THEN t - s1.start_time ELSE 0]
        ELSE s1

\* The timer stands still while a resistance buffer holds a non-finite sample.
update_timer_FiniteOnly(st, t) ==
    IF \E i \in BufferIndex : \/ ~IsFinite(st.basket_resistance_buffer[i])
                              \/ ~IsFinite(st.group_resistance_buffer[i])
    THEN st
    ELSE LET s1 == IF st.machine_state = "START"
                   THEN [st EXCEPT !.start_time = t, !.elapsed_time = 0]
                   ELSE st
         IN  IF s1.machine_state # "STOPPED"
             THEN [s1 EXCEPT !.elapsed_time = USub(t, s1.start_time)]
             ELSE s1

\* The fan also runs at the target temperature.
control_fan_AtTarget(st) ==
    LET over_target_temperature ==
            \/ FloatGreater(st.current_group_temperature, st.target_group_temperature)
            \/ st.current_group_temperature = Fin(st.target_group_temperature)
    IN  IF over_target_temperature THEN "LOW" ELSE "HIGH"

\* The fan runs unless the temperature is known to be at or under the target.
control_fan_UnlessUnder(st) ==
    LET at_or_under ==
            /\ ~IsNaN(st.current_group_temperature)
            /\ ~FloatGreater(st.current_group_temperature, st.target_group_temperature)
    IN  IF at_or_under THEN "HIGH" ELSE "LOW"

\* The buttons move the target without clamping it.
UpdateTarget_NoClamp(st, increase_pressed, decrease_pressed, t) ==
    IF increase_pressed
    THEN [st EXCEPT !.target_group_temperature = @ + TARGET_TEMPERATURE_INCREMENT,
                    !.last_target_change = t]
    ELSE IF decrease_pressed
    THEN [st EXCEPT !.target_group_temperature = @ - TARGET_TEMPERATURE_INCREMENT,
                    !.last_target_change = t]
    ELSE st

min(a, b) == IF a < b THEN a ELSE b
max(a, b) == IF a > b THEN a ELSE b

\* The decrease button takes two steps at once.
UpdateTarget_DoubleDecrease(st, increase_pressed, decrease_pressed, t) ==
    IF increase_pressed
    THEN [st EXCEPT !.target_group_temperature =
                        min(@ + TARGET_TEMPERATURE_INCREMENT, TARGET_TEMPERATURE_MAX),
                    !.last_target_change = t]
    ELSE IF decrease_pressed
    THEN [st EXCEPT !.target_group_temperature =
                        max(@ - 2 * TARGET_TEMPERATURE_INCREMENT,
                            TARGET_TEMPERATURE_MIN),
                    !.last_target_change = t]
    ELSE st

\* The switch on machine_state.
NextMachineState(machine_state, lever_up) ==
    CASE machine_state = "START" -> IF lever_up THEN "RUNNING" ELSE "STOP"
      [] machine_state = "RUNNING" -> IF lever_up THEN "RUNNING" ELSE "STOP"
      [] machine_state = "STOP" -> IF lever_up THEN "START" ELSE "STOPPED"
      [] machine_state = "STOPPED" -> IF lever_up THEN "START" ELSE "STOPPED"

\* The mean is kept up to date incrementally: the old mean plus the BUFFER_SIZE-th
\* of what the fresh sample adds to the one it overwrites.
RunningMean(buffer, index, sample) ==
    LET overwritten == buffer[index]
        difference == FloatAdd(sample, [overwritten EXCEPT !.v = -@])
    IN  FloatAdd(FloatDivInt(BufferSum(buffer, BUFFER_SIZE), BUFFER_SIZE),
                 FloatDivInt(difference, BUFFER_SIZE))

PushResistances_RunningMean(st, basket_resistance, group_resistance) ==
    LET index == (st.latest_buffer_index + 1) % BUFFER_SIZE
    IN  [st EXCEPT !.basket_resistance_buffer[index] = basket_resistance,
                   !.group_resistance_buffer[index] = group_resistance,
                   !.latest_buffer_index = index,
                   !.current_basket_temperature =
                       basket_resistance_to_temperature(
                           RunningMean(st.basket_resistance_buffer, index,
                                       basket_resistance)),
                   !.current_group_temperature =
                       group_resistance_to_temperature(
                           RunningMean(st.group_resistance_buffer, index,
                                       group_resistance))]

\* The temperatures are taken from the buffers as they were before the push.
PushResistances_StaleMean(st, basket_resistance, group_resistance) ==
    LET index == (st.latest_buffer_index + 1) % BUFFER_SIZE
    IN  [st EXCEPT !.basket_resistance_buffer[index] = basket_resistance,
                   !.group_resistance_buffer[index] = group_resistance,
                   !.latest_buffer_index = index,
                   !.current_basket_temperature =
                       basket_resistance_to_temperature(
                           FloatDivInt(BufferSum(st.basket_resistance_buffer,
                                                 BUFFER_SIZE), BUFFER_SIZE)),
                   !.current_group_temperature =
                       group_resistance_to_temperature(
                           FloatDivInt(BufferSum(st.group_resistance_buffer,
                                                 BUFFER_SIZE), BUFFER_SIZE))]

\* The buttons' part of update_machine_state.
UpdateTarget(st, increase_pressed, decrease_pressed, t) ==
    IF increase_pressed
    THEN [st EXCEPT !.target_group_temperature =
                        min(@ + TARGET_TEMPERATURE_INCREMENT, TARGET_TEMPERATURE_MAX),
                    !.last_target_change = t]
    ELSE IF decrease_pressed
    THEN [st EXCEPT !.target_group_temperature =
                        max(@ - TARGET_TEMPERATURE_INCREMENT, TARGET_TEMPERATURE_MIN),
                    !.last_target_change = t]
    ELSE st

\* Entering START also clears the stopwatch.
update_machine_state_ClearsTimer(st, increase_pressed, decrease_pressed, lever_up, t) ==
    LET s1 == UpdateTarget(st, increase_pressed, decrease_pressed, t)
        machine_state == NextMachineState(s1.machine_state, lever_up)
    IN  [s1 EXCEPT !.machine_state = machine_state,
                   !.elapsed_time = IF machine_state = "START" THEN 0 ELSE @]

update_machine_state(st, increase_pressed, decrease_pressed, lever_up, t) ==
    LET s1 == UpdateTarget(st, increase_pressed, decrease_pressed, t)
    IN  [s1 EXCEPT !.machine_state = NextMachineState(@, lever_up)]

update_timer(st, t) ==
    LET current_time == t
        s1 == IF st.machine_state = "START"
              THEN [st EXCEPT !.start_time = current_time, !.elapsed_time = 0]
              ELSE st
    IN  IF s1.machine_state # "STOPPED"
        THEN [s1 EXCEPT !.elapsed_time = USub(current_time, s1.start_time)]
        ELSE s1

\* The samples are written to the slot before the latest one.
PushResistances_Backwards(st, basket_resistance, group_resistance) ==
    LET index == (st.latest_buffer_index + BUFFER_SIZE - 1) % BUFFER_SIZE
        basket == [st.basket_resistance_buffer EXCEPT ![index] = basket_resistance]
        group == [st.group_resistance_buffer EXCEPT ![index] = group_resistance]
    IN  [st EXCEPT !.basket_resistance_buffer = basket,
                   !.group_resistance_buffer = group,
                   !.latest_buffer_index = index,
                   !.current_basket_temperature =
                       basket_resistance_to_temperature(
                           FloatDivInt(BufferSum(basket, BUFFER_SIZE), BUFFER_SIZE)),
                   !.current_group_temperature =
                       group_resistance_to_temperature(
                           FloatDivInt(BufferSum(group, BUFFER_SIZE), BUFFER_SIZE))]

\* The body of update_resistances, given the two resistances read.
PushResistances(st, basket_resistance, group_resistance) ==
    LET index == (st.latest_buffer_index + 1) % BUFFER_SIZE
        basket == [st.basket_resistance_buffer EXCEPT ![index] = basket_resistance]
        group == [st.group_resistance_buffer EXCEPT ![index] = group_resistance]
        basket_resistance_sum == BufferSum(basket, BUFFER_SIZE)
        group_resistance_sum == BufferSum(group, BUFFER_SIZE)
    IN  [st EXCEPT !.basket_resistance_buffer = basket,
                   !.group_resistance_buffer = group,
                   !.latest_buffer_index = index,
                   !.current_basket_temperature =
                       basket_resistance_to_temperature(
                           FloatDivInt(basket_resistance_sum, BUFFER_SIZE)),
                   !.current_group_temperature =
                       group_resistance_to_temperature(
                           FloatDivInt(group_resistance_sum, BUFFER_SIZE))]

update_resistances(st, adc) ==
    PushResistances(st, read_basket_resistance(adc), read_group_resistance(adc))

update_resistances_loop(st, adc) ==
    PushResistances(st, read_basket_resistance_loop(adc),
                    read_group_resistance_loop(adc))

\* sizeof on the ATmega boards: int has 2 bytes, long and float have 4.
SizeOf(type) ==
    CASE type = "float" -> 4
      [] type = "long" -> 4
      [] type = "int" -> 2

\* The machine state is sent as an int.
Measurement_IntState ==
    <<[name |-> "elapsed_time", type |-> "float"],
      [name |-> "basket_resistance", type |-> "float"],
      [name |-> "group_resistance", type |-> "float"],
      [name |-> "basket_temperature", type |-> "float"],
      [name |-> "group_temperature", type |-> "float"],
      [name |-> "state", type |-> "int"]>>

\* struct Measurement: its members in order of declaration.
Measurement ==
    <<[name |-> "elapsed_time", type |-> "float"],
      [name |-> "basket_resistance", type |-> "float"],
      [name |-> "group_resistance", type |-> "float"],
      [name |-> "basket_temperature", type |-> "float"],
      [name |-> "group_temperature", type |-> "float"],
      [name |-> "state", type |-> "long"]>>

RECURSIVE MemberBytes(_, _, _)
\* Members n.. of the struct holding measurement, byte by byte (no padding:
\* the ATmega aligns to bytes).
MemberBytes(members, measurement, n) ==
    IF n > Len(members) THEN <<>>
    ELSE [k \in 1..SizeOf(members[n].type) |->
              [member |-> members[n].name, type |-> members[n].type, byte |-> k - 1,
               of |-> measurement[members[n].name]]]
         \o MemberBytes(members, measurement, n + 1)

\* Serial.write((byte *) &measurement, sizeof(measurement))
SerialWrite(measurement) == MemberBytes(Measurement, measurement, 1)

\* The record carries the averaged temperatures of the DeviceState.
write_measurement_Averaged(st) ==
    LET index == st.latest_buffer_index
    IN  [elapsed_time |-> st.elapsed_time,
         basket_resistance |-> st.basket_resistance_buffer[index],
         group_resistance |-> st.group_resistance_buffer[index],
         basket_temperature |-> st.current_basket_temperature,
         group_temperature |-> st.current_group_temperature,
         state |-> MachineStateValue(st.machine_state)]

\* The Measurement that write_measurement sends.
write_measurement(st) ==
    LET index == st.latest_buffer_index
        basket_resistance == st.basket_resistance_buffer[index]
        group_resistance == st.group_resistance_buffer[index]
    IN  [elapsed_time |-> st.elapsed_time,
         basket_resistance |-> basket_resistance,
         group_resistance |-> group_resistance,
         basket_temperature |-> basket_resistance_to_temperature(basket_resistance),
         group_temperature |-> group_resistance_to_temperature(group_resistance),
         state |-> MachineStateValue(st.machine_state)]

\* The level control_fan writes to FAN_PIN.
control_fan(st) ==
    LET over_target_temperature ==
            FloatGreater(st.current_group_temperature, st.target_group_temperature)
    IN  IF over_target_temperature THEN "LOW" ELSE "HIGH"

\* The target is shown for less than TARGET_DISPLAY_TIME.
refresh_display_Short(st, t, undefined_int) ==
    LET display_target ==
            t < UAdd(st.last_target_change, TARGET_DISPLAY_TIME)
    IN  [header |-> IF display_target THEN "Target" ELSE "Group",
         group |-> format_temperature(
                       IF display_target THEN Fin(st.target_group_temperature)
                                         ELSE st.current_group_temperature,
                       undefined_int),
         basket |-> format_temperature(st.current_basket_temperature,
                                       undefined_int),
         time |-> format_elapsed_time(st.elapsed_time, undefined_int)]

\* What refresh_display draws, when millis() returns t.
refresh_display(st, t, undefined_int) ==
    LET display_target ==
            t <= UAdd(st.last_target_change, TARGET_DISPLAY_TIME)
    IN  [header |-> IF display_target THEN "Target" ELSE "Group",
         group |-> format_temperature(
                       IF display_target THEN Fin(st.target_group_temperature)
                                         ELSE st.current_group_temperature,
                       undefined_int),
         basket |-> format_temperature(st.current_basket_temperature,
                                       undefined_int),
         time |-> format_elapsed_time(st.elapsed_time, undefined_int)]

\* refresh_display of the loop revision.
refresh_display_loop(st, t, undefined_int) ==
    LET display_target ==
            t <= UAdd(st.last_target_change, TARGET_DISPLAY_TIME)
        elapsed_time == min(3600000, st.elapsed_time)
    IN  [header |-> IF display_target THEN "Target" ELSE "Group",
         group |-> format_temperature_loop(
                       IF display_target THEN Fin(st.target_group_temperature)
                                         ELSE st.current_group_temperature,
                       undefined_int),
         basket |-> format_temperature_loop(st.current_basket_temperature,
                                            undefined_int),
         time |-> format_elapsed_time(elapsed_time, undefined_int)]

\* loop() of the loop revision, in the order of its statements.  Each stage
\* takes the DeviceState the stage before left.

\* The switch on machine_state, for the lever sample read from the tilt channel.
LoopLeverUp(lever_reading) == read_voltage(lever_reading) > 48000

LoopSwitch(st, lever_reading) ==
    [st EXCEPT !.machine_state = NextMachineState(@, LoopLeverUp(lever_reading))]

\* The stopwatch.
LoopReset(st, current_time) ==
    IF st.machine_state = "START"
    THEN [st EXCEPT !.start_time = current_time, !.elapsed_time = 0]
    ELSE st

LoopElapsed(st, current_time) ==
    IF st.machine_state # "STOPPED"
    THEN [st EXCEPT !.elapsed_time = USub(current_time, st.start_time)]
    ELSE st

LoopTimer(st, current_time) == LoopElapsed(LoopReset(st, current_time), current_time)

\* The sensing block runs from the end of the period on.
LoopSenses_AtPeriod(st, current_time) ==
    current_time >= UAdd(st.last_resistance_measurement, SENSING_PERIOD)

\* The sensing gate.
LoopSenses(st, current_time) ==
    current_time > UAdd(st.last_resistance_measurement, SENSING_PERIOD)

LoopSense(st, adc, current_time) ==
    IF LoopSenses(st, current_time)
    THEN [update_resistances_loop(st, adc)
              EXCEPT !.last_resistance_measurement = current_time]
    ELSE st

\* The change of target is recorded in every iteration.
LoopTarget_Always(st, new_target_temperature, current_time) ==
    [st EXCEPT !.target_group_temperature = new_target_temperature,
               !.last_target_change = current_time]

\* The same step in the sketch that keeps its state in globals: the casts bind
\* to the literal 2, so the doubled floats themselves are compared.
LoopTargetUncast(st, new_target_temperature, current_time) ==
    IF 2 * new_target_temperature # 2 * st.target_group_temperature
    THEN [st EXCEPT !.target_group_temperature = new_target_temperature,
                    !.last_target_change = current_time]
    ELSE st

\* The target temperature read from the potentiometer.
LoopTarget(st, new_target_temperature, current_time) ==
    IF int(2 * new_target_temperature, 100) # int(2 * st.target_group_temperature, 100)
    THEN [st EXCEPT !.target_group_temperature = new_target_temperature,
                    !.last_target_change = current_time]
    ELSE st

\* The level written to FAN_PIN.
LoopFan(st) ==
    IF FloatGreater(st.current_group_temperature, st.target_group_temperature)
    THEN "LOW" ELSE "HIGH"

\* The display gate.
LoopRefreshes(st, current_time) ==
    current_time > UAdd(st.last_display_refresh, DISPLAY_PERIOD)

LoopRefresh(st, current_time) ==
    IF LoopRefreshes(st, current_time)
    THEN [st EXCEPT !.last_display_refresh = current_time]
    ELSE st

\* The DeviceState when the sensing block is reached, and after it.
LoopBeforeSense(st, lever_reading, t) == LoopTimer(LoopSwitch(st, lever_reading), t)

LoopAfterTarget(sensed, raw, t) == LoopTarget(sensed, read_target_temperature(raw), t)

\* One iteration of loop(), when millis() returns t: the new DeviceState and what
\* is written to the pin, the serial port and the display.
LoopOutcome(timed, sensed, targeted, undefined_int, t) ==
    [state |-> LoopRefresh(targeted, t),
     fan_pin |-> LoopFan(targeted),
     wrote |-> LoopSenses(timed, t),
     measurement |-> write_measurement(sensed),
     drew |-> LoopRefreshes(targeted, t),
     display |-> refresh_display_loop(targeted, t, undefined_int)]

LoopFromSensed(timed, sensed, raw, undefined_int, t) ==
    LoopOutcome(timed, sensed, LoopAfterTarget(sensed, raw, t), undefined_int, t)

LoopFromTimed(timed, adc, raw, undefined_int, t) ==
    LoopFromSensed(timed, LoopSense(timed, adc, t), raw, undefined_int, t)

loop(st, lever_reading, adc, raw, undefined_int, t) ==
    LoopFromTimed(LoopBeforeSense(st, lever_reading, t), adc, raw, undefined_int, t)

-----------------------------------------------------------------------------
(* Environment *)

\* ADC readings of the reference, basket and group channels: thermistors in place
\* (group at 93.00 degrees, basket at 90.00), both thermistors hotter, the group
\* thermistor unplugged, and an ADC that reads zero on every channel.
AdcSamples ==
    {[reference |-> 26000, basket |-> 12465, group |-> 11857],
     [reference |-> 26000, basket |-> 12000, group |-> 11000],
     [reference |-> 26000, basket |-> 12465, group |-> 26000],
     [reference |-> 0, basket |-> 0, group |-> 0]}

AdcAtBoot == [reference |-> 26000, basket |-> 12465, group |-> 11857]

\* A run varies one kind of input: the brew lever, the target controls (buttons
\* or potentiometer) or the thermistor readings.  The others stay as at boot.
\* (The runs of SpecFault vary the lever and the thermistor readings together.)
Scenarios == {"lever", "target", "sensor"}

LeverInputs == IF scenario \in {"lever", "fault"} THEN BOOLEAN ELSE {FALSE}
ButtonInputs == IF scenario = "target" THEN BOOLEAN ELSE {FALSE}
AdcInputs == IF scenario \in {"sensor", "fault"} THEN AdcSamples ELSE {AdcAtBoot}

\* The default target of the build; a run that varies the lever takes one.
TargetDefaults ==
    IF scenario = "lever"
    THEN {(TARGET_TEMPERATURE_MIN + TARGET_TEMPERATURE_MAX) \div 2}
    ELSE TARGET_TEMPERATURE_DEFAULTS

\* Readings of the tilt channel (loop revision): lever down, lever up.
LeverReadings == IF scenario = "lever" THEN {0, 20000} ELSE {0}

\* Potentiometer positions (loop revision).
RawSamples == {0, 512, 1023}
RawAtBoot == 512
RawInputs == IF scenario = "target" THEN RawSamples ELSE {RawAtBoot}

\* Values an undefined float-to-int conversion may yield.
UndefinedInts == {0, -32768}

millis == now % ULONG_RANGE

NoMeasurement ==
    [elapsed_time |-> 0, basket_resistance |-> NAN, group_resistance |-> NAN,
     basket_temperature |-> NAN, group_temperature |-> NAN, state |-> -1]

NoDisplay ==
    [header |-> "", group |-> [form |-> "", integer |-> 0, decimal |-> 0],
     basket |-> [form |-> "", integer |-> 0, decimal |-> 0],
     time |-> [minutes |-> 0, seconds |-> 0, decimal |-> 0]]

NoShot == [from |-> "STOPPED", start_tick |-> -1, stop_tick |-> -1]

\* What an operation read: the clock, the two buttons, the ADC and the
\* potentiometer (the boot values where the operation does not read them).
Read(t, increase_pressed, decrease_pressed, adc, raw) ==
    [at |-> t, increase |-> increase_pressed, decrease |-> decrease_pressed,
     adc |-> adc, raw |-> raw]

NoInput == Read(0, FALSE, FALSE, AdcAtBoot, RawAtBoot)

NoFn == [name |-> "", revision |-> "", a |-> 0, b |-> 0, i |-> 0, done |-> FALSE,
         result |-> NAN]

\* The pushes since the last non-finite group sample, after a push of sample.
SinceFaultAfter(sample) ==
    IF ~IsFinite(sample) THEN 0
    ELSE IF since_fault = -1 THEN -1
    ELSE min(since_fault + 1, BUFFER_SIZE)

\* The stopwatch bookkeeping after a state-machine step from machine state `from`
\* to `to`: a new shot begins when START is entered.
ShotAfterStep(from, to) ==
    IF to = "START" THEN [from |-> from, start_tick |-> -1, stop_tick |-> -1]
    ELSE [shot EXCEPT !.from = from]

\* The stopwatch bookkeeping after a timer update made at t in machine state ms.
ShotAfterTimer(sh, ms, t) ==
    CASE ms = "START" -> [sh EXCEPT !.start_tick = t]
      [] ms = "STOP" -> [sh EXCEPT !.stop_tick = t]
      [] OTHER -> sh

-----------------------------------------------------------------------------
(* The scheduler revision (src/espresso-shot.ino 185-226) *)

NumTasks == 5

\* tasks[]: the interval of each Task, in the order of the chain.
TaskInterval ==
    <<DEFAULT_TASK_PERIOD, DEFAULT_TASK_PERIOD, SENSING_PERIOD,
      DEFAULT_TASK_PERIOD, DISPLAY_PERIOD>>

\* Scheduler::execute() finds task i due: millis() - iPreviousMillis >= iDelay.
TaskDue(i) == USub(millis, tasks.prev[i]) >= TaskInterval[i]

\* Scheduler::execute() reaches task i, finds it due and runs its callback.
Scheduled(i) ==
    /\ variant \in {"scheduler", "pass"}
    /\ tasks.current = i
    /\ TaskDue(i)
    /\ tasks' = [prev |-> [tasks.prev EXCEPT ![i] = UAdd(@, TaskInterval[i])],
                 current |-> (i % NumTasks) + 1]

\* The clock may move on by one step between two calls of enable() in setup():
\* the tasks from `late` on are enabled one step after the others.
LateTasks == {2, NumTasks + 1}

\* setup(): initialize_state, then every task is enabled to run at once.
InitScheduler ==
    /\ variant = "scheduler"
    /\ scenario \in Scenarios
    /\ now = 0
    /\ \E target_default \in TargetDefaults :
           state = initialize_state(AdcAtBoot, target_default, 0)
    /\ \E late \in LateTasks :
           tasks = [prev |-> [i \in 1..NumTasks |->
                                 USub(IF i >= late THEN ClockStep ELSE 0,
                                      TaskInterval[i])],
                    current |-> 1]
    /\ fan_pin = "unset"
    /\ serial = [last |-> NoMeasurement, count |-> 0]
    /\ display = NoDisplay
    /\ op = "setup"
    /\ lever = FALSE
    /\ shot = NoShot
    /\ trace = <<>>
    /\ fn = NoFn
    /\ input = NoInput
    /\ since_fault = -1

update_machine_state_callback ==
    /\ Scheduled(1)
    /\ \E increase_pressed \in ButtonInputs, decrease_pressed \in ButtonInputs,
          lever_up \in LeverInputs :
          /\ state' = update_machine_state(state, increase_pressed,
                                           decrease_pressed, lever_up, millis)
          /\ lever' = lever_up
          /\ input' = Read(millis, increase_pressed, decrease_pressed,
                           input.adc, input.raw)
    /\ shot' = ShotAfterStep(state.machine_state, state'.machine_state)
    /\ op' = "update_machine_state"
    /\ UNCHANGED <<variant, scenario, now, fan_pin, serial, display, trace, fn,
                   since_fault>>

update_timer_callback ==
    /\ Scheduled(2)
    /\ state' = update_timer(state, millis)
    /\ shot' = ShotAfterTimer(shot, state.machine_state, millis)
    /\ op' = "update_timer"
    /\ UNCHANGED <<variant, scenario, now, fan_pin, serial, display, lever, trace, fn,
                   input, since_fault>>

sense_callback ==
    /\ Scheduled(3)
    /\ \E adc \in AdcInputs :
          /\ state' = update_resistances(state, adc)
          /\ input' = Read(millis, FALSE, FALSE, adc, input.raw)
          /\ since_fault' = SinceFaultAfter(read_group_resistance(adc))
    /\ serial' = [last |-> write_measurement(state'), count |-> serial.count + 1]
    /\ op' = "sense"
    /\ UNCHANGED <<variant, scenario, now, fan_pin, display, lever, shot, trace, fn>>

control_fan_callback ==
    /\ Scheduled(4)
    /\ fan_pin' = control_fan(state)
    /\ op' = "control_fan"
    /\ UNCHANGED <<variant, scenario, now, state, serial, display, lever, shot, trace, fn,
                   input, since_fault>>

refresh_display_callback ==
    /\ Scheduled(5)
    /\ \E undefined_int \in UndefinedInts :
           display' = refresh_display(state, millis, undefined_int)
    /\ op' = "refresh_display"
    /\ UNCHANGED <<variant, scenario, now, state, fan_pin, serial, lever, shot, trace, fn,
                   input, since_fault>>

\* Scheduler::execute() reaches a task that is not due and moves on.
SkipTask ==
    /\ variant \in {"scheduler", "pass"}
    /\ ~TaskDue(tasks.current)
    /\ tasks' = [tasks EXCEPT !.current = (@ % NumTasks) + 1]
    /\ UNCHANGED <<variant, scenario, now, state, fan_pin, serial, display, op, lever, shot,
                   trace, fn, input, since_fault>>

-----------------------------------------------------------------------------
(* The loop revision (src/espresso-shot.ino 39-138) *)

InitLoop ==
    /\ variant = "loop"
    /\ scenario \in Scenarios
    /\ now = 0
    /\ state = setup_loop(AdcAtBoot, RawAtBoot, 0)
    /\ tasks = [prev |-> [i \in 1..NumTasks |-> 0], current |-> 1]
    /\ fan_pin = "unset"
    /\ serial = [last |-> NoMeasurement, count |-> 0]
    /\ display = NoDisplay
    /\ op = "setup"
    /\ lever = FALSE
    /\ shot = NoShot
    /\ trace = <<>>
    /\ fn = NoFn
    /\ input = NoInput
    /\ since_fault = -1

LoopIteration ==
    /\ variant \in {"loop", "gates", "wrap"}
    \* around the wrap every iteration lasts at least one step of the clock
    /\ variant = "wrap" => op # "loop"
    /\ \E lever_reading \in LeverReadings, adc \in AdcInputs, raw \in RawInputs,
          undefined_int \in UndefinedInts :
          LET r == loop(state, lever_reading, adc, raw, undefined_int, millis)
          IN  /\ state' = r.state
              /\ lever' = LoopLeverUp(lever_reading)
              /\ input' = Read(millis, FALSE, FALSE, adc, raw)
              /\ since_fault' = IF r.wrote
                                THEN SinceFaultAfter(read_group_resistance_loop(adc))
                                ELSE since_fault
              /\ fan_pin' = r.fan_pin
              /\ serial' = IF r.wrote
                           THEN [last |-> r.measurement, count |-> serial.count + 1]
                           ELSE serial
              /\ display' = IF r.drew THEN r.display ELSE display
              /\ shot' = ShotAfterTimer(
                             ShotAfterStep(state.machine_state, r.state.machine_state),
                             r.state.machine_state, millis)
    /\ op' = "loop"
    /\ UNCHANGED <<variant, scenario, now, tasks, trace, fn>>

-----------------------------------------------------------------------------
(* Time *)

Tick ==
    /\ variant \in {"scheduler", "loop"}
    /\ variant = "scheduler" => tasks.current = 1
    /\ now + ClockStep <= MaxTime
    /\ now' = now + ClockStep
    /\ UNCHANGED <<variant, scenario, state, tasks, fan_pin, serial, display, op, lever, shot,
                   trace, fn, input, since_fault>>

Init == InitScheduler \/ InitLoop

Next ==
    \/ update_machine_state_callback
    \/ update_timer_callback
    \/ sense_callback
    \/ control_fan_callback
    \/ refresh_display_callback
    \/ SkipTask
    \/ LoopIteration
    \/ Tick

Spec == Init /\ [][Next]_vars

-----------------------------------------------------------------------------
(* The scheduler revision with the clock read by every task of a pass *)

\* setup() with every task enabled at the same millisecond.
InitPass ==
    /\ variant = "pass"
    /\ scenario = "lever"
    /\ now = 0
    /\ state = initialize_state(AdcAtBoot, TARGET_TEMPERATURE_MIN, 0)
    /\ tasks = [prev |-> [i \in 1..NumTasks |-> USub(0, TaskInterval[i])],
                current |-> 1]
    /\ fan_pin = "unset"
    /\ serial = [last |-> NoMeasurement, count |-> 0]
    /\ display = NoDisplay
    /\ op = "setup"
    /\ lever = FALSE
    /\ shot = NoShot
    /\ trace = <<>>
    /\ fn = NoFn
    /\ input = NoInput
    /\ since_fault = -1

\* Scheduler::execute() reads millis() anew for every task of the chain: the
\* clock moves on before a pass, or within it before the timer or the sensing
\* task is looked at.
PassTick ==
    /\ variant = "pass"
    /\ tasks.current \in 1..3
    /\ now + ClockStep <= PassSpan
    /\ now' = now + ClockStep
    /\ UNCHANGED <<variant, scenario, state, tasks, fan_pin, serial, display, op, lever,
                   shot, trace, fn, input, since_fault>>

SpecPass ==
    InitPass /\ [][\/ update_machine_state_callback
                   \/ update_timer_callback
                   \/ sense_callback
                   \/ control_fan_callback
                   \/ refresh_display_callback
                   \/ SkipTask
                   \/ PassTick]_vars

-----------------------------------------------------------------------------
(* The scheduler revision with shots pulled while the thermistors fail *)

InitFault ==
    /\ variant = "scheduler"
    /\ scenario = "fault"
    /\ now = 0
    /\ state = initialize_state(AdcAtBoot, TARGET_TEMPERATURE_MIN, 0)
    /\ tasks = [prev |-> [i \in 1..NumTasks |-> USub(0, TaskInterval[i])],
                current |-> 1]
    /\ fan_pin = "unset"
    /\ serial = [last |-> NoMeasurement, count |-> 0]
    /\ display = NoDisplay
    /\ op = "setup"
    /\ lever = FALSE
    /\ shot = NoShot
    /\ trace = <<>>
    /\ fn = NoFn
    /\ input = NoInput
    /\ since_fault = -1

SpecFault ==
    InitFault /\ [][\/ update_machine_state_callback
                    \/ update_timer_callback
                    \/ sense_callback
                    \/ control_fan_callback
                    \/ refresh_display_callback
                    \/ SkipTask
                    \/ Tick]_vars

-----------------------------------------------------------------------------
(* The sensing task alone: successive calls of sense_callback *)

InitPushes ==
    /\ variant = "pushes"
    /\ scenario = "sensor"
    /\ now = 0
    /\ state = initialize_state(AdcAtBoot, TARGET_TEMPERATURE_MIN, 0)
    /\ tasks = [prev |-> [i \in 1..NumTasks |-> 0], current |-> 1]
    /\ fan_pin = "unset"
    /\ serial = [last |-> NoMeasurement, count |-> 0]
    /\ display = NoDisplay
    /\ op = "setup"
    /\ lever = FALSE
    /\ shot = NoShot
    /\ trace = <<>>
    /\ fn = NoFn
    /\ input = NoInput
    /\ since_fault = -1

\* sense_callback, with the ADC readings of every call kept in trace.
PushStep ==
    /\ variant = "pushes"
    /\ Len(trace) < MaxTrace
    /\ \E adc \in AdcInputs :
          /\ state' = update_resistances(state, adc)
          /\ input' = Read(millis, FALSE, FALSE, adc, input.raw)
          /\ since_fault' = SinceFaultAfter(read_group_resistance(adc))
          /\ trace' = Append(trace, adc)
    /\ serial' = [last |-> write_measurement(state'), count |-> serial.count + 1]
    /\ op' = "sense"
    /\ UNCHANGED <<variant, scenario, now, tasks, fan_pin, display, lever, shot, fn>>

SpecPushes == InitPushes /\ [][PushStep]_vars

-----------------------------------------------------------------------------
(* The state machine alone: successive calls of update_machine_state *)

InitSteps ==
    /\ variant = "steps"
    /\ scenario = "all"
    /\ now = 0
    /\ \E target_default \in TARGET_TEMPERATURE_DEFAULTS :
           state = initialize_state(AdcAtBoot, target_default, 0)
    /\ tasks = [prev |-> [i \in 1..NumTasks |-> 0], current |-> 1]
    /\ fan_pin = "unset"
    /\ serial = [last |-> NoMeasurement, count |-> 0]
    /\ display = NoDisplay
    /\ op = "setup"
    /\ lever = FALSE
    /\ shot = NoShot
    /\ trace = <<>>
    /\ fn = NoFn
    /\ input = NoInput
    /\ since_fault = -1

MachineStep ==
    /\ variant = "steps"
    /\ Len(trace) < MaxTrace
    /\ \E increase_pressed \in BOOLEAN, decrease_pressed \in BOOLEAN,
          lever_up \in BOOLEAN :
          /\ state' = update_machine_state(state, increase_pressed,
                                           decrease_pressed, lever_up, millis)
          /\ lever' = lever_up
          /\ input' = Read(millis, increase_pressed, decrease_pressed,
                           input.adc, input.raw)
          /\ trace' = Append(trace, [lever_up |-> lever_up,
                                     machine_state |-> state'.machine_state])
    /\ shot' = ShotAfterStep(state.machine_state, state'.machine_state)
    /\ op' = "update_machine_state"
    /\ UNCHANGED <<variant, scenario, now, tasks, fan_pin, serial, display, fn,
                   since_fault>>

SpecSteps == InitSteps /\ [][MachineStep]_vars

-----------------------------------------------------------------------------
(* The conversions alone *)

\* ADC readings tried: the small ones, and those near a ratio of 1.01.
ReadingValues == (0..MaxReading) \cup {100 + i : i \in 0..MaxReading}

InitFunction(name, revisions, as, bs) ==
    /\ variant = "function"
    /\ scenario = "all"
    /\ now = 0
    /\ state = initialize_state(AdcAtBoot, TARGET_TEMPERATURE_MIN, 0)
    /\ tasks = [prev |-> [i \in 1..NumTasks |-> 0], current |-> 1]
    /\ fan_pin = "unset"
    /\ serial = [last |-> NoMeasurement, count |-> 0]
    /\ display = NoDisplay
    /\ op = "setup"
    /\ lever = FALSE
    /\ shot = NoShot
    /\ trace = <<>>
    /\ \E revision \in revisions, a \in as, b \in bs :
           fn = [name |-> name, revision |-> revision, a |-> a, b |-> b, i |-> 0,
                 done |-> FALSE, result |-> NAN]
    /\ input = NoInput
    /\ since_fault = -1

Evaluate(name, result) ==
    /\ variant = "function"
    /\ fn.name = name
    /\ ~fn.done
    /\ fn' = [fn EXCEPT !.done = TRUE, !.result = result]
    /\ UNCHANGED <<variant, scenario, now, state, tasks, fan_pin, serial, display,
                   op, lever, shot, trace, input, since_fault>>

\* read_resistance(ads1115, channel, known_resistance) of either revision, for
\* the readings fn.a of the reference channel and fn.b of the thermistor channel.
ReadResistance ==
    Evaluate("read_resistance",
             IF fn.revision = "scheduler"
             THEN read_resistance(fn.a, fn.b, BASKET_KNOWN_RESISTANCE)
             ELSE read_resistance_loop(fn.a, fn.b, BASKET_KNOWN_RESISTANCE))

InitResistance ==
    InitFunction("read_resistance", {"scheduler", "loop"},
                 ReadingValues, ReadingValues)

SpecResistance == InitResistance /\ [][ReadResistance]_vars

\* read_target_temperature() for the analogRead() value fn.a.
ReadTargetTemperature ==
    Evaluate("read_target_temperature", Fin(read_target_temperature(fn.a)))

InitTarget == InitFunction("read_target_temperature", {"loop"}, 0..1023, {0})

SpecTarget == InitTarget /\ [][ReadTargetTemperature]_vars

\* Temperatures to format, in 1/100 degree: a sweep across the floor of -273.0,
\* ordinary temperatures, temperatures at the end of the range of int, and the
\* values that are no numbers.
FormatTemperatures ==
    {Fin(-27400 + 25 * k) : k \in 0..MaxFormat}
        \cup {Fin(-50), Fin(0), Fin(2150), Fin(9300), Fin(9995), Fin(99990),
              Fin(3276700), Fin(3276800)}
        \cup {NAN, INFINITY, NEG_INFINITY}

\* format_temperature(buffer, temperature) of either revision, for the
\* temperature fn.a.
FormatTemperature ==
    \E undefined_int \in UndefinedInts :
        Evaluate("format_temperature",
                 IF fn.revision = "scheduler"
                 THEN format_temperature(fn.a, undefined_int)
                 ELSE format_temperature_loop(fn.a, undefined_int))

InitTemperatureFormat ==
    InitFunction("format_temperature", {"scheduler", "loop"},
                 FormatTemperatures, {0})

SpecTemperatureFormat == InitTemperatureFormat /\ [][FormatTemperature]_vars

\* Elapsed times to format, in 1/1000 s: the first seconds in steps of 0.1 s,
\* the minute, the end of the range of int(elapsed_time * 10), and the clamp.
FormatElapsedTimes ==
    {100 * k : k \in 0..MaxFormat}
        \cup {50, 59900, 60000, 754321, 3276700, 3276800, 3598900, 3599000,
              3599900, 3600000, 5000000}

\* format_elapsed_time(buffer, elapsed_time), for the elapsed time fn.a.
FormatElapsedTime ==
    \E undefined_int \in UndefinedInts :
        Evaluate("format_elapsed_time",
                 format_elapsed_time(fn.a, undefined_int))

InitElapsedFormat ==
    InitFunction("format_elapsed_time", {"scheduler"}, FormatElapsedTimes, {0})

SpecElapsedFormat == InitElapsedFormat /\ [][FormatElapsedTime]_vars

\* The times since power-up at which a shot starts, and the durations after
\* which its elapsed time is computed: short and long ones, with starts just
\* before millis() wraps.
TimerStarts == {0, ULONG_RANGE \div 2} \cup {ULONG_RANGE - k : k \in 1..4}
TimerDurations ==
    (0..MaxReading) \cup {ULONG_RANGE \div 2, ULONG_RANGE - 2, ULONG_RANGE - 1}

\* update_timer of the scheduler revision, or the timer statements of loop(), run
\* in START fn.a ms after power-up and again in RUNNING fn.b ms later; the
\* result is the elapsed_time of the second run.
UpdateTimer ==
    LET start_millis == fn.a % ULONG_RANGE
        current_millis == (fn.a + fn.b) % ULONG_RANGE
        start == [state EXCEPT !.machine_state = "START"]
        started == IF fn.revision = "scheduler"
                   THEN update_timer(start, start_millis)
                   ELSE LoopTimer(start, start_millis)
        running == [started EXCEPT !.machine_state = "RUNNING"]
        timed == IF fn.revision = "scheduler"
                 THEN update_timer(running, current_millis)
                 ELSE LoopTimer(running, current_millis)
    IN  Evaluate("update_timer", timed.elapsed_time)

InitTimer ==
    InitFunction("update_timer", {"scheduler", "loop"}, TimerStarts, TimerDurations)

SpecTimer == InitTimer /\ [][UpdateTimer]_vars

\* The targets the buttons can set: the steps from the minimum to the maximum.
PressTargets ==
    {target \in TARGET_TEMPERATURE_MIN..TARGET_TEMPERATURE_MAX :
         (target - TARGET_TEMPERATURE_MIN) % TARGET_TEMPERATURE_INCREMENT = 0}

\* update_machine_state at the target fn.a and the time fn.b, called with the
\* increase button pressed, with the decrease button pressed, and with the
\* increase button and then the decrease button pressed.
PressButtons ==
    LET at_target == [state EXCEPT !.target_group_temperature = fn.a]
        increased == update_machine_state(at_target, TRUE, FALSE, FALSE, fn.b)
        decreased == update_machine_state(at_target, FALSE, TRUE, FALSE, fn.b)
        restored == update_machine_state(increased, FALSE, TRUE, FALSE, fn.b)
    IN  Evaluate("update_machine_state",
                 [increased |-> increased.target_group_temperature,
                  decreased |-> decreased.target_group_temperature,
                  restored |-> restored.target_group_temperature])

InitPresses ==
    InitFunction("update_machine_state", {"scheduler"}, PressTargets, 0..MaxReading)

SpecPresses == InitPresses /\ [][PressButtons]_vars

\* Resistances to convert: values spread from 1 to 400000, and the values on
\* either side of the zero of a + b ln R + c (ln R)^3 when the unit is 2^-10 ohm.
CurveResistances ==
    {10 * k * k + k + 1 : k \in 0..MaxCurve} \cup {16, 20, 24, 25, 26, 28, 32}

\* The resistances are given in ohm or in 2^-10 ohm.
CurveUnits == {1, 2^10}

\* Increments of the resistance.
CurveSteps == {1, 10, 1000}

\* basket_resistance_to_temperature of a resistance of r / unit ohm.
CurveTemperature(r, unit) ==
    SteinhartHart(Fin(r), unit, BASKET_SH_A, BASKET_SH_B, BASKET_SH_C)

\* resistance_to_temperature(resistance, sh_a, sh_b, sh_c) for the resistance
\* fn.a / fn.b ohm and the calibrated coefficients.
ResistanceToTemperature ==
    Evaluate("resistance_to_temperature", CurveTemperature(fn.a, fn.b))

InitCurve ==
    InitFunction("resistance_to_temperature", {"scheduler"},
                 CurveResistances, CurveUnits)

SpecCurve == InitCurve /\ [][ResistanceToTemperature]_vars

-----------------------------------------------------------------------------
(* The loop revision over several display periods, with steady inputs *)

\* The time that passes between two iterations of loop(), in ms: short steps,
\* taken within GateWindow after a multiple of DISPLAY_PERIOD, and a long one.
GateSteps == {5, 6, DISPLAY_PERIOD}

InitGates ==
    /\ variant = "gates"
    /\ scenario = "steady"
    /\ now = 0
    /\ state = setup_loop(AdcAtBoot, RawAtBoot, 0)
    /\ tasks = [prev |-> [i \in 1..NumTasks |-> 0], current |-> 1]
    /\ fan_pin = "unset"
    /\ serial = [last |-> NoMeasurement, count |-> 0]
    /\ display = NoDisplay
    /\ op = "setup"
    /\ lever = FALSE
    /\ shot = NoShot
    /\ trace = <<>>
    /\ fn = NoFn
    /\ input = NoInput
    /\ since_fault = -1

\* millis() moves on between two iterations.
GateTick ==
    /\ variant = "gates"
    /\ op = "loop"
    /\ \E step \in GateSteps :
           /\ now + step <= GateSpan
           /\ step < DISPLAY_PERIOD => (now % DISPLAY_PERIOD) + step <= GateWindow
           /\ now' = now + step
    /\ op' = "tick"
    /\ UNCHANGED <<variant, scenario, state, tasks, fan_pin, serial, display, lever,
                   shot, trace, fn, input, since_fault>>

SpecGates == InitGates /\ [][LoopIteration \/ GateTick]_vars

-----------------------------------------------------------------------------
(* The loop revision around the wrap of millis(), with steady inputs *)

\* The values of millis() at which the iterations resume shortly before the
\* wrap: a display period, or a few sensing periods, before the last value.
WrapLeapTimes ==
    {ULONG_RANGE - DISPLAY_PERIOD - 1, ULONG_RANGE - 4 * SENSING_PERIOD - 1}

InitWrap ==
    /\ variant = "wrap"
    /\ scenario = "steady"
    /\ now = 0
    /\ state = setup_loop(AdcAtBoot, RawAtBoot, 0)
    /\ tasks = [prev |-> [i \in 1..NumTasks |-> 0], current |-> 1]
    /\ fan_pin = "unset"
    /\ serial = [last |-> NoMeasurement, count |-> 0]
    /\ display = NoDisplay
    /\ op = "setup"
    /\ lever = FALSE
    /\ shot = NoShot
    /\ trace = <<>>
    /\ fn = NoFn
    /\ input = NoInput
    /\ since_fault = -1

\* millis() moves on between two iterations, past the wrap.
WrapTick ==
    /\ variant = "wrap"
    /\ op = "loop"
    /\ \E step \in {5, 6} :
           /\ now + step <= ULONG_RANGE + WrapSpan
           /\ now + step >= ULONG_RANGE - 4 * SENSING_PERIOD - 1
           /\ now' = now + step
    /\ op' = "tick"
    /\ UNCHANGED <<variant, scenario, state, tasks, fan_pin, serial, display, lever,
                   shot, trace, fn, input, since_fault>>

\* The long run from setup() to the last periods before the wrap, of which only
\* the iterations at WrapLeapTimes are followed.
WrapLeap ==
    /\ variant = "wrap"
    /\ op = "loop"
    /\ \E current_time \in WrapLeapTimes :
           /\ now < current_time
           /\ now' = current_time
    /\ op' = "tick"
    /\ UNCHANGED <<variant, scenario, state, tasks, fan_pin, serial, display, lever,
                   shot, trace, fn, input, since_fault>>

SpecWrap == InitWrap /\ [][LoopIteration \/ WrapTick \/ WrapLeap]_vars

-----------------------------------------------------------------------------
(* The boolean revision (src/unnamed/part_001), run side by side with the
   four-state machine *)

\* setup(): the globals of the boolean revision that the stopwatch involves,
\* and the state the last iteration would report (none yet).
InitialBooleanState(t) ==
    [running |-> FALSE, previously_running |-> FALSE, start_time |-> t,
     elapsed_time |-> 0, state |-> -1]

\* measurement.state as write_measurement derives it from the two booleans.
MeasurementState(is_running, was_running) ==
    IF is_running
    THEN (IF was_running THEN MachineStateValue("RUNNING")
                         ELSE MachineStateValue("START"))
    ELSE (IF was_running THEN MachineStateValue("STOP")
                         ELSE MachineStateValue("STOPPED"))

\* The timer is updated only while the machine is running.
loop_boolean_WhileRunning(bs, lever_reading, current_time) ==
    LET is_running == read_voltage(lever_reading) > 48000
        s1 == IF is_running /\ ~bs.previously_running
              THEN [bs EXCEPT !.start_time = current_time, !.elapsed_time = 0]
              ELSE bs
        s2 == IF is_running
              THEN [s1 EXCEPT !.elapsed_time = USub(current_time, s1.start_time)]
              ELSE s1
    IN  [s2 EXCEPT !.running = is_running,
                   !.previously_running = is_running,
                   !.state = MeasurementState(is_running, bs.previously_running)]

\* loop() of the boolean revision: the lever, the stopwatch, and
\* previously_running = running at the end.
loop_boolean(bs, lever_reading, current_time) ==
    LET is_running == read_voltage(lever_reading) > 48000
        s1 == IF is_running /\ ~bs.previously_running
              THEN [bs EXCEPT !.start_time = current_time, !.elapsed_time = 0]
              ELSE bs
        s2 == IF is_running \/ bs.previously_running
              THEN [s1 EXCEPT !.elapsed_time = USub(current_time, s1.start_time)]
              ELSE s1
    IN  [s2 EXCEPT !.running = is_running,
                   !.previously_running = is_running,
                   !.state = MeasurementState(is_running, bs.previously_running)]

InitBoolean ==
    /\ variant = "boolean"
    /\ scenario = "lever"
    /\ now = 0
    /\ \E revision \in {"scheduler", "loop"} :
           /\ state = IF revision = "loop"
                      THEN setup_loop(AdcAtBoot, RawAtBoot, 0)
                      ELSE initialize_state(AdcAtBoot, TARGET_TEMPERATURE_MIN, 0)
           /\ fn = [NoFn EXCEPT !.name = "loop", !.revision = revision,
                                !.result = InitialBooleanState(0)]
    /\ tasks = [prev |-> [i \in 1..NumTasks |-> 0], current |-> 1]
    /\ fan_pin = "unset"
    /\ serial = [last |-> NoMeasurement, count |-> 0]
    /\ display = NoDisplay
    /\ op = "setup"
    /\ lever = FALSE
    /\ shot = NoShot
    /\ trace = <<>>
    /\ input = NoInput
    /\ since_fault = -1

\* One lever sample at one time, taken by both: an iteration of loop() of the
\* boolean revision, and the state machine followed by the stopwatch of the
\* four-state revision (the switch and the timer of loop(), or
\* update_machine_state and update_timer).
BooleanStep ==
    /\ variant = "boolean"
    /\ Len(trace) < MaxTrace
    /\ \E lever_reading \in LeverReadings, elapsed \in {0, ClockStep} :
          LET current_time == (now + elapsed) % ULONG_RANGE
              lever_up == LoopLeverUp(lever_reading)
          IN  /\ now + elapsed <= MaxTime
              /\ now' = now + elapsed
              /\ state' = IF fn.revision = "loop"
                          THEN LoopTimer(LoopSwitch(state, lever_reading),
                                         current_time)
                          ELSE update_timer(
                                   update_machine_state(state, FALSE, FALSE,
                                                        lever_up, current_time),
                                   current_time)
              /\ fn' = [fn EXCEPT !.result = loop_boolean(@, lever_reading,
                                                          current_time)]
              /\ lever' = lever_up
              /\ trace' = Append(trace, [lever_up |-> lever_up,
                                         machine_state |-> state'.machine_state])
    /\ op' = "loop"
    /\ UNCHANGED <<variant, scenario, tasks, fan_pin, serial, display, shot, input,
                   since_fault>>

SpecBoolean == InitBoolean /\ [][BooleanStep]_vars

-----------------------------------------------------------------------------
(* The display over seconds: button presses and refreshes, DISPLAY_PERIOD apart *)

\* millis() at boot: zero, or close enough to the wrap of the counter for
\* last_target_change + TARGET_DISPLAY_TIME to pass it.
DisplayBootTimes == {0, ULONG_RANGE - TARGET_DISPLAY_TIME - DISPLAY_PERIOD}

InitDisplay ==
    /\ variant = "display"
    /\ scenario = "target"
    /\ now \in DisplayBootTimes
    /\ state = initialize_state(AdcAtBoot, (TARGET_TEMPERATURE_MIN
                                             + TARGET_TEMPERATURE_MAX) \div 2, millis)
    /\ tasks = [prev |-> [i \in 1..NumTasks |-> 0], current |-> 1]
    /\ fan_pin = "unset"
    /\ serial = [last |-> NoMeasurement, count |-> 0]
    /\ display = NoDisplay
    /\ op = "setup"
    /\ lever = FALSE
    /\ shot = NoShot
    /\ trace = <<>>
    /\ fn = NoFn
    /\ input = NoInput
    /\ since_fault = -1

\* Each period runs update_machine_state, with the lever down and any buttons
\* pressed, and then refresh_display: tasks.current tells which comes next.
DisplayPress ==
    /\ variant = "display"
    /\ tasks.current = 1
    /\ tasks' = [tasks EXCEPT !.current = NumTasks]
    /\ \E increase_pressed \in BOOLEAN, decrease_pressed \in BOOLEAN :
          /\ state' = update_machine_state(state, increase_pressed,
                                           decrease_pressed, FALSE, millis)
          /\ input' = Read(millis, increase_pressed, decrease_pressed,
                           input.adc, input.raw)
    /\ op' = "update_machine_state"
    /\ UNCHANGED <<variant, scenario, now, fan_pin, serial, display, lever,
                   shot, trace, fn, since_fault>>

DisplayRefresh ==
    /\ variant = "display"
    /\ tasks.current = NumTasks
    /\ tasks' = [tasks EXCEPT !.current = NumTasks + 1]
    /\ \E undefined_int \in UndefinedInts :
           display' = refresh_display(state, millis, undefined_int)
    /\ op' = "refresh_display"
    /\ UNCHANGED <<variant, scenario, now, state, fan_pin, serial, lever,
                   shot, trace, fn, input, since_fault>>

DisplayTick ==
    /\ variant = "display"
    /\ tasks.current = NumTasks + 1
    /\ tasks' = [tasks EXCEPT !.current = 1]
    /\ \E boot \in DisplayBootTimes :
          /\ now >= boot
          /\ now + DISPLAY_PERIOD <= boot + DisplaySpan
    /\ now' = now + DISPLAY_PERIOD
    /\ UNCHANGED <<variant, scenario, state, fan_pin, serial, display, op,
                   lever, shot, trace, fn, input, since_fault>>

SpecDisplay == InitDisplay /\ [][DisplayPress \/ DisplayRefresh \/ DisplayTick]_vars

-----------------------------------------------------------------------------
(* The mean of a buffer in single precision *)

\* A positive float is held as a whole number of units of 2^-10, the spacing of
\* the floats between 8192 and 16384 (ohm); a float has 24 significant bits.
F32Significand == 2^24

RECURSIVE F32Spacing(_, _)
\* The spacing of the floats around v, in units, starting the search at p.
F32Spacing(v, p) ==
    IF v \div p < F32Significand THEN p ELSE F32Spacing(v, 2 * p)

\* v / d rounded to the nearest float, ties to even, for v / d >= 2^23 units.
F32Quotient(v, d) ==
    LET p == F32Spacing(v \div d, 1)
        q == v \div (d * p)
        r == v % (d * p)
        up == 2 * r > d * p \/ (2 * r = d * p /\ q % 2 = 1)
    IN  (IF up THEN q + 1 ELSE q) * p

\* The sum kept to 12 significant bits only.
F32Add_Short(a, b) == ((a + b) \div 2^12) * 2^12

\* a + b rounded to the nearest float.
F32Add(a, b) == F32Quotient(a + b, 1)

\* SENSING_FREQUENCY, the BUFFER_SIZE of the program.
SENSING_FREQUENCY == 100

\* Resistances around the basket reading at boot, 9154.201171875 ohm.
F32Samples == {9373902 + 1021 * k : k \in 0..MaxSample}

InitAverage ==
    InitFunction("average", {"scheduler"}, F32Samples,
                 {BUFFER_SIZE, SENSING_FREQUENCY})

\* The loop of update_resistances over a buffer of fn.b slots that all hold
\* fn.a: sum += buffer[i], from 0.0.
AverageAdd ==
    /\ variant = "function"
    /\ fn.name = "average"
    /\ fn.i < fn.b
    /\ fn' = [fn EXCEPT !.i = @ + 1,
                        !.result = Fin(F32Add(IF fn.i = 0 THEN 0 ELSE @.v, fn.a))]
    /\ UNCHANGED <<variant, scenario, now, state, tasks, fan_pin, serial, display,
                   op, lever, shot, trace, input, since_fault>>

\* sum / BUFFER_SIZE, after the loop.
AverageDivide ==
    /\ fn.i = fn.b
    /\ Evaluate("average", Fin(F32Quotient(fn.result.v, fn.b)))

SpecAverage == InitAverage /\ [][AverageAdd \/ AverageDivide]_vars

-----------------------------------------------------------------------------
(* Properties of the shot state machine and of the timer *)

\* The transition table of the machine state, by lever sample.
TransitionTable ==
    [START   |-> [up |-> "RUNNING", down |-> "STOP"],
     RUNNING |-> [up |-> "RUNNING", down |-> "STOP"],
     STOP    |-> [up |-> "START",   down |-> "STOPPED"],
     STOPPED |-> [up |-> "START",   down |-> "STOPPED"]]

LeverName(lever_up) == IF lever_up THEN "up" ELSE "down"

\* A step that runs the state machine / the timer / the fan control.
MachineStateStep == update_machine_state_callback \/ LoopIteration \/ MachineStep
TimerStep == update_timer_callback \/ LoopIteration
FanStep == control_fan_callback \/ LoopIteration

\* The machine state the timer and the fan see in this step: in the scheduler
\* revision the one left by the last state-machine task, in the loop revision
\* the one the iteration has just switched to.
SeenState == IF variant = "loop" THEN state' ELSE state

\* C1: each step of the state machine takes machine_state to the entry of the
\* transition table for the old state and the sampled lever (START and RUNNING
\* go to RUNNING / STOP, STOP and STOPPED go to START / STOPPED), and no other
\* step changes machine_state.
C1_TransitionTable ==
    [][IF MachineStateStep
       THEN state'.machine_state
                = TransitionTable[state.machine_state][LeverName(lever')]
       ELSE state'.machine_state = state.machine_state]_vars

\* The lever was sampled up while the machine was in STOP, and it is in START.
C1_Witness ==
    /\ op \in {"update_machine_state", "loop"}
    /\ shot.from = "STOP"
    /\ lever
    /\ state.machine_state = "START"

LeverSequence == <<TRUE, TRUE, FALSE, FALSE, TRUE>>
StateSequence == <<"START", "RUNNING", "STOP", "STOPPED", "START">>

\* C2: from STOPPED, as long as the lever samples of successive state-machine
\* steps follow up, up, down, down, up, the states entered follow START,
\* RUNNING, STOP, STOPPED, START.
C2_LeverSequence ==
    LET n == min(Len(trace), Len(LeverSequence)) IN
    (\A i \in 1..n : trace[i].lever_up = LeverSequence[i])
        => (\A i \in 1..n : trace[i].machine_state = StateSequence[i])

\* All five steps of the sequence were taken.
C2_Witness ==
    /\ Len(trace) >= Len(LeverSequence)
    /\ \A i \in 1..Len(LeverSequence) : trace[i].lever_up = LeverSequence[i]
    /\ trace[Len(LeverSequence)].machine_state = "START"

\* C3: a timer update that runs while machine_state is START sets start_time to
\* the current time and elapsed_time to zero, whichever state START was entered
\* from.
C3_StartResetsTimer ==
    [][(TimerStep /\ SeenState.machine_state = "START")
          => /\ state'.start_time = millis
             /\ state'.elapsed_time = 0]_vars

\* The timer was reset in a START entered from STOP, after time had passed.
C3_Witness ==
    /\ op \in {"update_timer", "loop"}
    /\ state.machine_state = "START"
    /\ shot.from = "STOP"
    /\ shot.start_tick = millis
    /\ millis > 0
    /\ state.start_time = millis
    /\ state.elapsed_time = 0

\* C4: once the machine is STOPPED, elapsed_time and start_time change only in
\* a step that enters START; they keep their values for as long as the machine
\* stays STOPPED.
C4_StoppedFreezesTimer ==
    [][(/\ state.machine_state = "STOPPED"
        /\ \/ state'.elapsed_time # state.elapsed_time
           \/ state'.start_time # state.start_time)
          => state'.machine_state = "START"]_vars

\* After a shot the machine stayed STOPPED for a further timer update, with the
\* time of the shot still on the timer.
C4_Witness ==
    /\ op \in {"update_timer", "loop"}
    /\ state.machine_state = "STOPPED"
    /\ shot.from = "STOPPED"
    /\ state.elapsed_time > 0
    /\ USub(millis, state.start_time) > state.elapsed_time

\* C5: a timer update that runs while machine_state is RUNNING or STOP sets
\* elapsed_time to the current time minus start_time, and the value frozen in
\* STOPPED is the time of the timer update of the STOP tick minus the
\* start_time recorded by the timer update of the START tick.
C5_ElapsedTime ==
    /\ [][(TimerStep /\ SeenState.machine_state \in {"RUNNING", "STOP"})
             => /\ state'.elapsed_time = USub(millis, state.start_time)
                /\ state'.start_time = state.start_time]_vars
    /\ []((/\ state.machine_state = "STOPPED"
            /\ shot.start_tick # -1
            /\ shot.stop_tick # -1)
              => state.elapsed_time = USub(shot.stop_tick, shot.start_tick))

\* A shot was timed from its START tick to its STOP tick and is now frozen.
C5_Witness ==
    /\ state.machine_state = "STOPPED"
    /\ shot.start_tick # -1
    /\ shot.stop_tick # -1
    /\ shot.stop_tick # shot.start_tick
    /\ state.elapsed_time = USub(shot.stop_tick, shot.start_tick)
    /\ millis # shot.stop_tick

-----------------------------------------------------------------------------
(* Properties of the fan control *)

\* The state the fan control reads: in the loop revision the one the iteration
\* has sensed and retargeted.
FanState == IF variant = "loop" THEN state' ELSE state

\* current_group_temperature > target_group_temperature, as a comparison of reals
OverTarget(st) ==
    \/ /\ st.current_group_temperature.k = "fin"
       /\ st.current_group_temperature.v > st.target_group_temperature
    \/ st.current_group_temperature = INFINITY

\* C6: the fan control drives the pin LOW (fan on) exactly when
\* current_group_temperature is strictly above target_group_temperature, and
\* HIGH (fan off) otherwise, equality included.
C6_FanOnExactlyOverTarget ==
    [][FanStep => (fan_pin' = IF OverTarget(FanState) THEN "LOW" ELSE "HIGH")]_vars

\* The fan control ran with the group exactly at the target, and the fan is off.
C6_Witness ==
    /\ op \in {"control_fan", "loop"}
    /\ state.current_group_temperature = Fin(state.target_group_temperature)
    /\ fan_pin = "HIGH"

\* The group resistance buffer holds an infinite sample.
InfiniteSample(st) ==
    \E i \in 0..(BUFFER_SIZE - 1) : st.group_resistance_buffer[i] = INFINITY

\* C7: when current_group_temperature is NaN, or comes from a group resistance
\* buffer that holds an infinite sample, the fan control leaves the fan off
\* (pin HIGH), whatever target within [MIN, MAX] is set.
C7_NonNumericKeepsFanOff ==
    [][(/\ FanStep
        /\ FanState.target_group_temperature >= TARGET_TEMPERATURE_MIN
        /\ FanState.target_group_temperature <= TARGET_TEMPERATURE_MAX
        /\ \/ IsNaN(FanState.current_group_temperature)
           \/ InfiniteSample(FanState))
          => fan_pin' = "HIGH"]_vars

\* The fan control ran on a NaN group temperature and left the fan off.
C7_Witness ==
    /\ op \in {"control_fan", "loop"}
    /\ IsNaN(state.current_group_temperature)
    /\ state.target_group_temperature >= TARGET_TEMPERATURE_MIN
    /\ state.target_group_temperature <= TARGET_TEMPERATURE_MAX
    /\ fan_pin = "HIGH"

-----------------------------------------------------------------------------
(* Properties of the resistance and of the target temperature *)

\* C8: read_resistance returns the positive-infinity sentinel for every pair of
\* readings with |Vref/V| < 1.01, and known_resistance / (Vref/V - 1) for every
\* other pair.
C8_SentinelBelowThreshold ==
    (fn.name = "read_resistance" /\ fn.done)
        => LET reference_voltage == read_voltage(fn.a)
               voltage == read_voltage(fn.b)
           IN  IF voltage # 0 /\ 100 * reference_voltage < 101 * voltage
               THEN fn.result = INFINITY
               ELSE fn.result = DividerResistance(reference_voltage, voltage,
                                                  BASKET_KNOWN_RESISTANCE)

\* C9: in the push-button revision target_group_temperature is always within
\* [TARGET_TEMPERATURE_MIN, TARGET_TEMPERATURE_MAX] and a multiple of 0.5.
C9_TargetClamped ==
    variant \in {"scheduler", "steps"}
        => /\ state.target_group_temperature >= TARGET_TEMPERATURE_MIN
           /\ state.target_group_temperature <= TARGET_TEMPERATURE_MAX
           /\ state.target_group_temperature % 50 = 0

\* A button was pressed after boot and the target stands at a limit.
C9_Witness ==
    /\ variant = "scheduler"
    /\ op # "setup"
    /\ state.last_target_change > 0
    /\ state.target_group_temperature
           \in {TARGET_TEMPERATURE_MIN, TARGET_TEMPERATURE_MAX}

\* C10: in the potentiometer revision read_target_temperature maps every raw
\* reading in 0..1023 linearly onto [2 * MIN, 2 * MAX] and halves it, so the
\* target is a multiple of 0.5 within [MIN, MAX] = [88.0, 98.0].
C10_TargetWithinRange ==
    (fn.name = "read_target_temperature" /\ fn.done)
        => /\ fn.result = Fin(50 * map(fn.a, 0, 1023,
                                       (2 * TARGET_TEMPERATURE_MIN) \div 100,
                                       (2 * TARGET_TEMPERATURE_MAX) \div 100))
           /\ fn.result.v % 50 = 0
           /\ fn.result.v >= TARGET_TEMPERATURE_MIN
           /\ fn.result.v <= TARGET_TEMPERATURE_MAX

-----------------------------------------------------------------------------
(* Properties of the target temperature change detection *)

\* The doubled-integer form of a target temperature.
Quantized(temperature) == int(2 * temperature, 100)

\* C11: in the potentiometer revision a loop iteration sets
\* target_group_temperature to the target just read and last_target_change to
\* the current time exactly when the target just read differs from the stored
\* one in doubled-integer form; otherwise, and in every other step, both keep
\* their values. The comparison of the uncast doubled floats decides the same.
C11_TargetChangeDetection ==
    [][IF LoopIteration
       THEN LET new_target_temperature == read_target_temperature(input'.raw)
                uncast == LoopTargetUncast(state, new_target_temperature, millis)
            IN  /\ IF Quantized(new_target_temperature)
                          # Quantized(state.target_group_temperature)
                   THEN /\ state'.target_group_temperature = new_target_temperature
                        /\ state'.last_target_change = millis
                   ELSE /\ state'.target_group_temperature
                               = state.target_group_temperature
                        /\ state'.last_target_change = state.last_target_change
                /\ uncast.target_group_temperature = state'.target_group_temperature
                /\ uncast.last_target_change = state'.last_target_change
       ELSE variant = "loop"
               => /\ state'.target_group_temperature = state.target_group_temperature
                  /\ state'.last_target_change = state.last_target_change]_vars

\* The potentiometer was turned once, and a later iteration that read the same
\* position left the recorded change alone.
C11_Witness ==
    /\ variant = "loop"
    /\ op = "loop"
    /\ state.last_target_change > 0
    /\ input.at > state.last_target_change
    /\ state.target_group_temperature = read_target_temperature(input.raw)
    /\ input.raw # RawAtBoot

\* C12: in the push-button revision update_machine_state sets
\* last_target_change to the current time exactly when
\* target_group_temperature changes; a press that leaves the target where it
\* is (increase at the maximum, decrease at the minimum) records no change.
C12_ChangeRecordedOnlyOnChange ==
    [][(update_machine_state_callback \/ MachineStep)
          => IF state'.target_group_temperature # state.target_group_temperature
             THEN state'.last_target_change = millis
             ELSE state'.last_target_change = state.last_target_change]_vars

-----------------------------------------------------------------------------
(* Properties of the resistance buffers *)

\* A step that makes a sensing tick: the sensing task, or a loop iteration whose
\* sensing period has passed.
SenseStep == sense_callback \/ (LoopIteration /\ LoopSenses(state, millis))

\* The samples a sensing tick reads, from the ADC readings it recorded.
FreshBasket(adc) ==
    IF variant = "loop" THEN read_basket_resistance_loop(adc)
                        ELSE read_basket_resistance(adc)
FreshGroup(adc) ==
    IF variant = "loop" THEN read_group_resistance_loop(adc)
                        ELSE read_group_resistance(adc)

Slots == 0..(BUFFER_SIZE - 1)

RECURSIVE SumOfSlots(_, _)
SumOfSlots(buffer, slots) ==
    IF slots = {} THEN 0
    ELSE LET i == CHOOSE j \in slots : TRUE
         IN  buffer[i].v + SumOfSlots(buffer, slots \ {i})

\* The arithmetic mean of the slots of a buffer, as a float: NaN when a slot is
\* NaN or infinities of both signs meet, infinite when a slot is infinite.
WindowMean(buffer) ==
    IF \/ \E i \in Slots : IsNaN(buffer[i])
       \/ \E i, j \in Slots : buffer[i] = INFINITY /\ buffer[j] = NEG_INFINITY
    THEN NAN
    ELSE IF \E i \in Slots : buffer[i] = INFINITY THEN INFINITY
    ELSE IF \E i \in Slots : buffer[i] = NEG_INFINITY THEN NEG_INFINITY
    ELSE Fin(TruncDiv(SumOfSlots(buffer, Slots), BUFFER_SIZE))

\* The buffer is `before` with the slot at index replaced by sample.
Overwritten(before, after, index, sample) ==
    /\ after[index] = sample
    /\ \A i \in Slots \ {index} : after[i] = before[i]

\* C13: each sensing tick advances latest_buffer_index by one modulo
\* BUFFER_SIZE, overwrites exactly the slot at the new index of each buffer
\* with the fresh sample, and sets each current temperature to the temperature
\* of the arithmetic mean over all BUFFER_SIZE slots of the updated buffer.
C13_PushAndAverage ==
    [][SenseStep
          => LET index == (state.latest_buffer_index + 1) % BUFFER_SIZE
             IN  /\ state'.latest_buffer_index = index
                 /\ Overwritten(state.basket_resistance_buffer,
                                state'.basket_resistance_buffer,
                                index, FreshBasket(input'.adc))
                 /\ Overwritten(state.group_resistance_buffer,
                                state'.group_resistance_buffer,
                                index, FreshGroup(input'.adc))
                 /\ state'.current_basket_temperature
                        = basket_resistance_to_temperature(
                              WindowMean(state'.basket_resistance_buffer))
                 /\ state'.current_group_temperature
                        = group_resistance_to_temperature(
                              WindowMean(state'.group_resistance_buffer))]_vars

\* A sensing tick has pushed a sample that differs from the others in the
\* window, and the mean lies strictly between the samples.
C13_Witness ==
    /\ op \in {"sense", "loop"}
    /\ serial.count > 0
    /\ LET buffer == state.group_resistance_buffer
           mean == WindowMean(buffer)
       IN  /\ \A i \in Slots : IsFinite(buffer[i])
           /\ \E i \in Slots : buffer[i].v < mean.v
           /\ \E i \in Slots : buffer[i].v > mean.v
           /\ buffer[state.latest_buffer_index] = FreshGroup(input.adc)

\* C14: in every state after initialization latest_buffer_index lies within
\* 0..BUFFER_SIZE-1, so do the index update_resistances writes next and the one
\* write_measurement reads, and both buffers keep their BUFFER_SIZE slots.
C14_IndexWithinBuffer ==
    variant \in {"scheduler", "loop", "steps"}
        => /\ state.latest_buffer_index \in Slots
           /\ (state.latest_buffer_index + 1) % BUFFER_SIZE \in Slots
           /\ DOMAIN state.basket_resistance_buffer = Slots
           /\ DOMAIN state.group_resistance_buffer = Slots

\* The index went round the whole ring and wrapped to slot 0 a second time.
C14_Witness ==
    /\ op \in {"sense", "loop"}
    /\ serial.count > BUFFER_SIZE
    /\ state.latest_buffer_index = 0

\* C15: when all BUFFER_SIZE slots of a buffer hold the same value x, the
\* buffer average equals x.
C15_ConstantBufferAverage ==
    (fn.name = "average" /\ fn.done) => fn.result = Fin(fn.a)

\* The group temperature is the temperature of the mean of the group buffer.
GroupTemperatureOfMean ==
    state.current_group_temperature
        = group_resistance_to_temperature(WindowMean(state.group_resistance_buffer))

\* C16: after a non-finite group sample is pushed and followed only by finite
\* ones, the average is non-finite in every sensing tick while that sample is
\* in the window (fewer than BUFFER_SIZE pushes after it), and from the
\* BUFFER_SIZE-th push after it onward every slot is finite and the average is
\* finite again.
C16_FaultLeavesWithItsSlot ==
    variant \in {"scheduler", "loop"}
        => /\ GroupTemperatureOfMean
           /\ since_fault \in 0..(BUFFER_SIZE - 1)
                 => ~IsFinite(WindowMean(state.group_resistance_buffer))
           /\ since_fault \in {-1, BUFFER_SIZE}
                 => /\ \A i \in Slots : IsFinite(state.group_resistance_buffer[i])
                    /\ IsFinite(WindowMean(state.group_resistance_buffer))
                    /\ IsFinite(state.current_group_temperature)

\* The BUFFER_SIZE-th finite sample after an infinite one has been pushed.
C16_Witness ==
    /\ op \in {"sense", "loop"}
    /\ since_fault = BUFFER_SIZE
    /\ IsFinite(WindowMean(state.group_resistance_buffer))
    /\ IsFinite(state.current_group_temperature)

\* C17: a non-finite sample affects only the average of the sensing tick that
\* pushes it: at the next sensing tick, after a finite sample is pushed, the
\* average is finite again.
C17_FaultLastsOneTick ==
    (variant \in {"scheduler", "loop"} /\ since_fault = 1)
        => /\ IsFinite(WindowMean(state.group_resistance_buffer))
           /\ GroupTemperatureOfMean

-----------------------------------------------------------------------------
(* Properties of the telemetry *)

\* C18: every sensing tick makes one push and then sends one record, which
\* carries the current elapsed_time, the two resistances just pushed (those at
\* latest_buffer_index), the temperatures of those two resistances and the
\* current machine_state; no other step sends a record or pushes a sample.
C18_OneRecordPerSensingTick ==
    [][IF SenseStep
       THEN /\ serial'.count = serial.count + 1
            /\ state'.latest_buffer_index
                   = (state.latest_buffer_index + 1) % BUFFER_SIZE
            /\ serial'.last.elapsed_time = state'.elapsed_time
            /\ serial'.last.basket_resistance = FreshBasket(input'.adc)
            /\ serial'.last.basket_resistance
                   = state'.basket_resistance_buffer[state'.latest_buffer_index]
            /\ serial'.last.group_resistance = FreshGroup(input'.adc)
            /\ serial'.last.group_resistance
                   = state'.group_resistance_buffer[state'.latest_buffer_index]
            /\ serial'.last.basket_temperature
                   = basket_resistance_to_temperature(FreshBasket(input'.adc))
            /\ serial'.last.group_temperature
                   = group_resistance_to_temperature(FreshGroup(input'.adc))
            /\ serial'.last.state = MachineStateValue(state'.machine_state)
       ELSE /\ serial' = serial
            /\ state'.latest_buffer_index = state.latest_buffer_index
            /\ state'.basket_resistance_buffer = state.basket_resistance_buffer
            /\ state'.group_resistance_buffer = state.group_resistance_buffer]_vars

\* A record was sent whose group temperature is that of the sample just pushed
\* and differs from the averaged one.
C18_Witness ==
    /\ op \in {"sense", "loop"}
    /\ serial.count > 1
    /\ IsFinite(serial.last.group_temperature)
    /\ IsFinite(state.current_group_temperature)
    /\ serial.last.group_temperature # state.current_group_temperature
    /\ serial.last.group_resistance = FreshGroup(input.adc)

\* The fields of a telemetry record, in order, and the integer sent for each
\* machine state.
RecordFields ==
    <<"elapsed_time", "basket_resistance", "group_resistance",
      "basket_temperature", "group_temperature", "state">>
RecordStateCode == [START |-> 0, RUNNING |-> 1, STOP |-> 2, STOPPED |-> 3]

\* C19: the record write_measurement sends has six fields of 4 bytes each, 24
\* bytes in all, in the order elapsed_time, basket_resistance, group_resistance,
\* basket_temperature, group_temperature, machine_state; the first five are
\* floats and the last is an integer with START = 0, RUNNING = 1, STOP = 2,
\* STOPPED = 3.
C19_RecordLayout ==
    [][SenseStep
          => LET bytes == SerialWrite(serial'.last)
             IN  /\ Len(bytes) = 24
                 /\ \A f \in 1..6 : \A k \in 0..3 :
                        LET b == bytes[4 * (f - 1) + k + 1]
                        IN  /\ b.member = RecordFields[f]
                            /\ b.byte = k
                            /\ b.type = IF f = 6 THEN "long" ELSE "float"
                            /\ b.of = serial'.last[RecordFields[f]]
                 /\ serial'.last.state = RecordStateCode[state'.machine_state]]_vars

\* A record was sent while a shot was running.
C19_Witness ==
    /\ op \in {"sense", "loop"}
    /\ serial.count > 0
    /\ state.machine_state = "RUNNING"
    /\ serial.last.state = 1
    /\ serial.last.elapsed_time > 0
    /\ Len(SerialWrite(serial.last)) = 24

-----------------------------------------------------------------------------
(* Properties of the display *)

\* A step that refreshes the display, and the state it draws.
RefreshStep ==
    \/ refresh_display_callback
    \/ DisplayRefresh
    \/ (LoopIteration /\ LoopRefreshes(state, millis))
DrawnState == IF variant = "loop" THEN state' ELSE state

C21_SentinelAtFloor ==
    (fn.name = "format_temperature" /\ fn.done)
        => /\ (~IsFinite(fn.a) /\ fn.a # INFINITY) => fn.result.form = "--- C"
           /\ (IsFinite(fn.a) /\ fn.a.v <= -27300) => fn.result.form = "--- C"
           /\ (IsFinite(fn.a) /\ fn.a.v > -27300)
                  => fn.result.form = "%3d.%1dC"

\* C22: for every elapsed_time >= 0 format_elapsed_time renders MM:SS.D of the
\* time clamped to 3599 s, with MM and SS in 00..59 and D in 0..9, in seven
\* characters.
C22_FixedWidthElapsedTime ==
    (fn.name = "format_elapsed_time" /\ fn.done)
        => LET clamped == IF fn.a < 3599000 THEN fn.a ELSE 3599000
           IN  /\ fn.result.minutes = (clamped \div 1000) \div 60
               /\ fn.result.seconds = (clamped \div 1000) % 60
               /\ fn.result.decimal = (clamped \div 100) % 10
               /\ fn.result.minutes \in 0..59
               /\ fn.result.seconds \in 0..59
               /\ fn.result.decimal \in 0..9
               /\ fn.result.length = 7
               /\ fn.result.length < FORMAT_BUFFER_SIZE

\* The temperature update_resistances derives from a basket resistance given in
\* units of 2^-10 ohm, at the resolution of resistance_to_temperature.
AverageTemperature(v) == basket_resistance_to_temperature(Fin(v \div 2^10))

\* The distance between two numbers.
Distance(a, b) == IF a >= b THEN a - b ELSE b - a

C24_TemperaturesOfPresentBuffers ==
    variant \in {"scheduler", "loop"}
        => /\ state.current_basket_temperature
                  = basket_resistance_to_temperature(
                        WindowMean(state.basket_resistance_buffer))
           /\ state.current_group_temperature
                  = group_resistance_to_temperature(
                        WindowMean(state.group_resistance_buffer))

\* The fan task has run on a window whose samples differ, after a sensing task
\* had replaced one of them.
C24_Witness ==
    /\ variant = "scheduler"
    /\ op = "control_fan"
    /\ serial.count > 0
    /\ \E i, j \in Slots :
           /\ IsFinite(state.basket_resistance_buffer[i])
           /\ IsFinite(state.basket_resistance_buffer[j])
           /\ state.basket_resistance_buffer[i] # state.basket_resistance_buffer[j]
    /\ state.current_basket_temperature
           # basket_resistance_to_temperature(
                 state.basket_resistance_buffer[state.latest_buffer_index])

\* The state-machine step that takes the machine from STOP to STOPPED.
ReportsStopped ==
    /\ update_machine_state_callback \/ LoopIteration
    /\ state.machine_state = "STOP"
    /\ state'.machine_state = "STOPPED"

\* C25: when the machine goes from STOP to STOPPED, the timer has run in that
\* STOP, computing the final elapsed_time, and a telemetry record carrying
\* machine_state = STOP and that elapsed_time has been sent.
C25_StopRecordBeforeStopped ==
    [][ReportsStopped
          => /\ shot.stop_tick # -1
             /\ serial.last.state = RecordStateCode["STOP"]
             /\ serial.last.elapsed_time = state.elapsed_time]_vars

\* C28: in the scheduler revision, whenever update_machine_state runs with
\* machine_state = START, the timer task has run since the machine entered that
\* START.
C28_TimerRunsInStart ==
    [][(update_machine_state_callback /\ state.machine_state = "START")
          => shot.start_tick # -1]_vars

\* x > y of two temperatures.
Warmer(x, y) == IsFinite(x) /\ IsFinite(y) /\ x.v > y.v

C27_OneStepInStartAndStop ==
    \A i \in 1..(Len(trace) - 1) :
        trace[i].machine_state \in {"START", "STOP"}
            => trace[i + 1].machine_state # trace[i].machine_state

\* START and STOP were each entered and left, twice for START.
C27_Witness ==
    /\ Len(trace) = MaxTrace
    /\ \E i, j, k \in 1..(MaxTrace - 1) :
           /\ i < j
           /\ j < k
           /\ trace[i].machine_state = "START"
           /\ trace[j].machine_state = "STOP"
           /\ trace[k].machine_state = "START"
           /\ trace[k + 1].machine_state = "STOP"

C30_TimeGates ==
    [][LoopIteration
          => LET sensing == millis > state.last_resistance_measurement
                                         + SENSING_PERIOD
                 refreshing == millis > state.last_display_refresh + DISPLAY_PERIOD
             IN  /\ IF sensing
                    THEN /\ serial'.count = serial.count + 1
                         /\ state'.latest_buffer_index
                                = (state.latest_buffer_index + 1) % BUFFER_SIZE
                         /\ state'.last_resistance_measurement = millis
                         /\ serial'.last.basket_resistance
                                = state'.basket_resistance_buffer[
                                      state'.latest_buffer_index]
                         /\ millis - state.last_resistance_measurement
                                > SENSING_PERIOD
                    ELSE /\ serial' = serial
                         /\ state'.latest_buffer_index = state.latest_buffer_index
                         /\ state'.basket_resistance_buffer
                                = state.basket_resistance_buffer
                         /\ state'.group_resistance_buffer
                                = state.group_resistance_buffer
                         /\ state'.last_resistance_measurement
                                = state.last_resistance_measurement
                 /\ IF refreshing
                    THEN /\ state'.last_display_refresh = millis
                         /\ display' # NoDisplay
                    ELSE /\ state'.last_display_refresh = state.last_display_refresh
                         /\ display' = display]_vars

\* The display has just been refreshed for the second time, in an iteration that
\* also sensed, and fewer records were written than sensing periods have passed.
C30_Witness ==
    /\ variant = "gates"
    /\ op = "loop"
    /\ millis > 2 * DISPLAY_PERIOD
    /\ state.last_display_refresh = millis
    /\ display # NoDisplay
    /\ state.last_resistance_measurement = millis
    /\ serial.count > 2
    /\ (serial.count + 2) * SENSING_PERIOD < millis

\* Some value of millis() opens the gate current_time > last + period.
GateCanOpen(last, period) ==
    \E current_time \in 0..(ULONG_RANGE - 1) : current_time > UAdd(last, period)

\* C31: in the loop revision the sensing gate and the display gate never stay
\* false forever, also around the wrap of millis(): in every state there is a
\* value of the clock at which the gate is true.
C31_GatesOpenAgain ==
    variant = "wrap"
        => /\ GateCanOpen(state.last_resistance_measurement, SENSING_PERIOD)
           /\ GateCanOpen(state.last_display_refresh, DISPLAY_PERIOD)

\* C32: the elapsed time computed as current_time - start_time in unsigned
\* arithmetic is the true number of milliseconds since the start of the shot,
\* for every shot shorter than the range of the clock, also when millis() has
\* wrapped since the start.
C32_ElapsedAcrossWrap ==
    (fn.name = "update_timer" /\ fn.done /\ fn.b < ULONG_RANGE)
        => fn.result = fn.b

C32_Witness ==
    /\ fn.name = "update_timer" /\ fn.revision = "scheduler" /\ fn.done
    /\ fn.a < ULONG_RANGE /\ fn.a + fn.b >= ULONG_RANGE
    /\ fn.b > 0
    /\ fn.result = fn.b

\* C33: for every elapsed_time from 0 to 3599 s the value of
\* int(elapsed_time * 10) in format_elapsed_time is within the range of the
\* platform's int, and the decimal printed is a digit, the first decimal place
\* of elapsed_time.
C33_TenthsFitInt ==
    (fn.name = "format_elapsed_time" /\ fn.done /\ fn.a >= 0 /\ fn.a <= 3599000)
        => /\ TruncDiv(fn.a * 10, 1000) \in IntValues
           /\ fn.result.decimal = (fn.a \div 100) % 10

\* C34: every telemetry record whose machine_state is START carries
\* elapsed_time = 0: the stopwatch reset of that START precedes the record.
C34_StartRecordsAtZero ==
    serial.last.state = RecordStateCode["START"] => serial.last.elapsed_time = 0

\* The pushes, among the first k, that wrote slot i.
PushesTo(i, k) == {j \in 1..k : (j - 1) % BUFFER_SIZE = i}

\* The greatest element of a non-empty set of numbers.
Latest(pushes) == CHOOSE j \in pushes : \A other \in pushes : other <= j

\* C35: after k pushes following initialize_state, latest_buffer_index is
\* (k - 1) mod BUFFER_SIZE; push j wrote slot (j - 1) mod BUFFER_SIZE, so the
\* slots are written in the order 0, 1, ..., BUFFER_SIZE - 1, 0, ... and each
\* push overwrites the oldest sample; every slot holds the sample of the latest
\* push that wrote it (the buffer holds the most recent min(k, BUFFER_SIZE)
\* samples), or the initial reading when no push has written it yet.
C35_RingOrder ==
    variant = "pushes"
        => LET k == Len(trace)
           IN  /\ state.latest_buffer_index = (k - 1) % BUFFER_SIZE
               /\ \A i \in Slots :
                      LET adc == IF PushesTo(i, k) = {} THEN AdcAtBoot
                                 ELSE trace[Latest(PushesTo(i, k))]
                      IN  /\ state.basket_resistance_buffer[i]
                                 = read_basket_resistance(adc)
                          /\ state.group_resistance_buffer[i]
                                 = read_group_resistance(adc)
               /\ \A i \in Slots :
                      PushesTo(i, k) # {} => Latest(PushesTo(i, k)) > k - BUFFER_SIZE

\* More pushes than slots, with a sample overwritten by a different one.
C35_Witness ==
    /\ variant = "pushes"
    /\ Len(trace) > BUFFER_SIZE
    /\ trace[Len(trace)] # trace[Len(trace) - BUFFER_SIZE]
    /\ state.latest_buffer_index = (Len(trace) - 1) % BUFFER_SIZE
    /\ state.basket_resistance_buffer[state.latest_buffer_index]
           = read_basket_resistance(trace[Len(trace)])
    /\ read_basket_resistance(trace[Len(trace)])
           # read_basket_resistance(trace[Len(trace) - BUFFER_SIZE])

\* The fields a non-finite sample must leave as finite samples would.
Timing(st) ==
    <<st.machine_state, st.start_time, st.elapsed_time, st.target_group_temperature,
      st.latest_buffer_index>>

NonFiniteSample(adc) ==
    \/ ~IsFinite(read_basket_resistance(adc))
    \/ ~IsFinite(read_group_resistance(adc))

\* A resistance buffer holds a non-finite sample.
HoldsNonFinite(st) ==
    \E i \in Slots : \/ ~IsFinite(st.basket_resistance_buffer[i])
                     \/ ~IsFinite(st.group_resistance_buffer[i])

\* The state with the buffers and temperatures that finite samples give.
WithFiniteSamples(st) ==
    LET finite == initialize_state(AdcAtBoot, TARGET_TEMPERATURE_MIN, 0)
    IN  [st EXCEPT !.basket_resistance_buffer = finite.basket_resistance_buffer,
                   !.group_resistance_buffer = finite.group_resistance_buffer,
                   !.current_basket_temperature = finite.current_basket_temperature,
                   !.current_group_temperature = finite.current_group_temperature]

\* C36: a sensing tick that reads a non-finite sample leaves machine_state,
\* start_time, elapsed_time, target_group_temperature and latest_buffer_index
\* as a tick reading finite samples does; while a buffer holds a non-finite
\* sample, update_machine_state and update_timer set those fields as they do
\* with finite buffers; and the sensing task still runs whenever it is due.
C36_FaultsStayInBuffers ==
    [][/\ (sense_callback /\ NonFiniteSample(input'.adc))
              => Timing(state') = Timing(update_resistances(state, AdcAtBoot))
       /\ (update_machine_state_callback /\ HoldsNonFinite(state))
              => Timing(state')
                     = Timing(update_machine_state(WithFiniteSamples(state),
                                                   input'.increase, input'.decrease,
                                                   lever', millis))
       /\ (update_timer_callback /\ HoldsNonFinite(state))
              => Timing(state') = Timing(update_timer(WithFiniteSamples(state), millis))
       /\ (HoldsNonFinite(state) /\ tasks.current = 3 /\ TaskDue(3))
              => sense_callback]_vars

\* A shot is running and timed, and a sensing tick has run, after a non-finite
\* sample that is still in the buffer.
C36_Witness ==
    /\ scenario = "fault"
    /\ op = "sense"
    /\ since_fault = 1
    /\ HoldsNonFinite(state)
    /\ state.machine_state = "RUNNING"
    /\ state.elapsed_time > 0

\* The step leaves every field of the device state outside `fields` alone.
ChangesOnly(fields) ==
    \A field \in (DOMAIN state) \ fields : state'[field] = state[field]

\* C37: update_machine_state changes only machine_state,
\* target_group_temperature and last_target_change; update_timer changes only
\* start_time and elapsed_time; update_resistances changes only
\* latest_buffer_index, one slot of each buffer and the two current
\* temperatures; control_fan, write_measurement and refresh_display change no
\* field of the device state.
C37_FrameConditions ==
    [][/\ update_machine_state_callback
              => ChangesOnly({"machine_state", "target_group_temperature",
                              "last_target_change"})
       /\ update_timer_callback => ChangesOnly({"start_time", "elapsed_time"})
       /\ sense_callback
              => /\ ChangesOnly({"latest_buffer_index", "basket_resistance_buffer",
                                 "group_resistance_buffer",
                                 "current_basket_temperature",
                                 "current_group_temperature"})
                 /\ \A i \in Slots \ {state'.latest_buffer_index} :
                        /\ state'.basket_resistance_buffer[i]
                               = state.basket_resistance_buffer[i]
                        /\ state'.group_resistance_buffer[i]
                               = state.group_resistance_buffer[i]
                 \* write_measurement adds no change to those of update_resistances
                 /\ state' = update_resistances(state, input'.adc)
       /\ (control_fan_callback \/ refresh_display_callback) => state' = state]_vars

\* The state machine, the timer, the sensing task and the fan control have run,
\* each with an effect: a later shot is running and timed, a second record is
\* sent and the fan pin is set.
C37_Witness ==
    /\ variant = "scheduler"
    /\ op = "control_fan"
    /\ state.machine_state = "RUNNING"
    /\ state.elapsed_time > 0
    /\ serial.count > 1
    /\ fan_pin \in {"LOW", "HIGH"}

\* C38: in the push-button revision an increase press at TARGET_TEMPERATURE_MAX
\* leaves the target at the maximum, a decrease press at TARGET_TEMPERATURE_MIN
\* leaves it at the minimum, and for every target with target + INCREMENT <= MAX
\* an increase press followed by a decrease press restores the target.
C38_ClampsAndInverseSteps ==
    (fn.name = "update_machine_state" /\ fn.done)
        => /\ fn.a = TARGET_TEMPERATURE_MAX
                 => fn.result.increased = TARGET_TEMPERATURE_MAX
           /\ fn.a = TARGET_TEMPERATURE_MIN
                 => fn.result.decreased = TARGET_TEMPERATURE_MIN
           /\ fn.a + TARGET_TEMPERATURE_INCREMENT <= TARGET_TEMPERATURE_MAX
                 => /\ fn.result.increased = fn.a + TARGET_TEMPERATURE_INCREMENT
                    /\ fn.result.restored = fn.a

\* The two presses ran one step below the maximum: up to the maximum and back.
C38_Witness ==
    /\ fn.name = "update_machine_state" /\ fn.done
    /\ fn.a = TARGET_TEMPERATURE_MAX - TARGET_TEMPERATURE_INCREMENT
    /\ fn.result.increased = TARGET_TEMPERATURE_MAX
    /\ fn.result.restored = fn.a

=============================================================================
